---- MODULE Spec2Model ----
(***************************************************************************)
(* A model of marketmap.py: the keyword-expression engine (lexer, parser,  *)
(* KeywordFilter), the ScraperManager.run orchestrator with its result     *)
(* queue and callbacks, and the fetch/retry ladders of the three platform  *)
(* scrapers (Allegro, OLX, Vinted).                                        *)
(*                                                                         *)
(* Python strings are modelled as sequences of one-character strings, so   *)
(* that lower-casing, substring containment and tokenization are computed  *)
(* rather than assumed.  Optional values are sequences of length 0 (None)  *)
(* or 1.  Python dicts are functions whose DOMAIN is the key set.          *)
(***************************************************************************)
EXTENDS Integers, Sequences, FiniteSets, TLC

\* ------------------------------------------------------------------------
\* Optional values
\* ------------------------------------------------------------------------
None == <<>>
Some(x) == <<x>>

\* ------------------------------------------------------------------------
\* str.lower() and the `in` operator on strings
\* ------------------------------------------------------------------------
UpperChars == <<"A","B","C","D","E","F","G","H","I","J","K","L","M",
                "N","O","P","Q","R","S","T","U","V","W","X","Y","Z">>
LowerChars == <<"a","b","c","d","e","f","g","h","i","j","k","l","m",
                "n","o","p","q","r","s","t","u","v","w","x","y","z">>

LowerChar(ch) ==
    IF \E k \in 1..Len(UpperChars) : UpperChars[k] = ch
    THEN LowerChars[CHOOSE k \in 1..Len(UpperChars) : UpperChars[k] = ch]
    ELSE ch

Lower(s) == [k \in 1..Len(s) |-> LowerChar(s[k])]

\* needle in hay
Contains(hay, needle) ==
    \E k \in 0..(Len(hay) - Len(needle)) :
        SubSeq(hay, k + 1, k + Len(needle)) = needle

\* ------------------------------------------------------------------------
\* KeywordExpressionLexer
\* ------------------------------------------------------------------------
AND_KEYWORDS == { <<"i">>, <<"a","n","d">>, <<"&">>, <<"&","&">>, <<"+">> }
OR_KEYWORDS  == { <<"l","u","b">>, <<"o","r">>, <<"|">>, <<"|","|">> }

Token(type, value) == [type |-> type, value |-> value]

IsSpace(ch) == ch \in {" ", "\t", "\n"}

\* _skip_whitespace: the first position >= pos (0-based) that is not a space
RECURSIVE SkipWhitespace(_, _)
SkipWhitespace(expr, pos) ==
    IF pos < Len(expr) /\ IsSpace(expr[pos + 1])
    THEN SkipWhitespace(expr, pos + 1)
    ELSE pos

\* _read_word: the position just after the word that starts at pos
RECURSIVE ReadWordEnd(_, _)
ReadWordEnd(expr, pos) ==
    IF pos < Len(expr) /\ ~IsSpace(expr[pos + 1]) /\ expr[pos + 1] \notin {"(", ")"}
    THEN ReadWordEnd(expr, pos + 1)
    ELSE pos

\* variant of ClassifyWord: the operator words are compared as written
ClassifyWord_CaseSensitive(word) ==
    IF word \in AND_KEYWORDS THEN Token("AND", word)
    ELSE IF word \in OR_KEYWORDS THEN Token("OR", word)
    ELSE Token("KEYWORD", word)

ClassifyWord(word) ==
    IF Lower(word) \in AND_KEYWORDS THEN Token("AND", word)
    ELSE IF Lower(word) \in OR_KEYWORDS THEN Token("OR", word)
    ELSE Token("KEYWORD", word)

RECURSIVE TokenizeFrom(_, _, _)
TokenizeFrom(expr, pos, tokens) ==
    IF pos >= Len(expr) THEN Append(tokens, Token("EOF", <<>>))
    ELSE LET p == SkipWhitespace(expr, pos) IN
         IF p >= Len(expr) THEN Append(tokens, Token("EOF", <<>>))
         ELSE IF expr[p + 1] = "(" THEN
                 TokenizeFrom(expr, p + 1, Append(tokens, Token("LPAREN", <<"(">>)))
         ELSE IF expr[p + 1] = ")" THEN
                 TokenizeFrom(expr, p + 1, Append(tokens, Token("RPAREN", <<")">>)))
         ELSE LET e == ReadWordEnd(expr, p) IN
                 TokenizeFrom(expr, e, Append(tokens, ClassifyWord(SubSeq(expr, p + 1, e))))

tokenize(expr) == TokenizeFrom(expr, 0, <<>>)

\* ------------------------------------------------------------------------
\* Expression AST: KeywordNode / AndNode / OrNode
\* ------------------------------------------------------------------------
KeywordNode(kw) == [type |-> "KeywordNode", keyword |-> kw]
AndNode(l, r)   == [type |-> "AndNode", left |-> l, right |-> r]
OrNode(l, r)    == [type |-> "OrNode", left |-> l, right |-> r]

RECURSIVE evaluate(_, _)
evaluate(node, text) ==
    IF node.type = "KeywordNode" THEN Contains(Lower(text), Lower(node.keyword))
    ELSE IF node.type = "AndNode"
         THEN evaluate(node.left, text) /\ evaluate(node.right, text)
         ELSE evaluate(node.left, text) \/ evaluate(node.right, text)

RECURSIVE get_keywords(_)
get_keywords(node) ==
    IF node.type = "KeywordNode" THEN <<node.keyword>>
    ELSE get_keywords(node.left) \o get_keywords(node.right)


\* variant of node_matched_keywords: an AND node that is false reports nothing
RECURSIVE node_matched_keywords_OnlyWhenTrue(_, _)
node_matched_keywords_OnlyWhenTrue(node, text) ==
    IF node.type = "KeywordNode"
    THEN IF evaluate(node, text) THEN <<node.keyword>> ELSE <<>>
    ELSE IF node.type = "AndNode" /\ ~evaluate(node, text) THEN <<>>
    ELSE node_matched_keywords_OnlyWhenTrue(node.left, text)
         \o node_matched_keywords_OnlyWhenTrue(node.right, text)

\* KeywordNode/AndNode/OrNode.get_matched_keywords
RECURSIVE node_matched_keywords(_, _)
node_matched_keywords(node, text) ==
    IF node.type = "KeywordNode"
    THEN IF evaluate(node, text) THEN <<node.keyword>> ELSE <<>>
    ELSE node_matched_keywords(node.left, text) \o node_matched_keywords(node.right, text)

\* ------------------------------------------------------------------------
\* KeywordExpressionParser (recursive descent).  A parse step returns
\* [ok, node, pos, err]; ok = FALSE stands for the raised ValueError.
\* ------------------------------------------------------------------------
ParseOk(node, pos) == [ok |-> TRUE, node |-> node, pos |-> pos, err |-> <<>>]
ParseFail(msg, pos) == [ok |-> FALSE, node |-> <<>>, pos |-> pos, err |-> msg]

\* _current_token
CurrentToken(tokens, pos) ==
    IF pos < Len(tokens) THEN tokens[pos + 1] ELSE Token("EOF", <<>>)

RECURSIVE ParseExpression(_, _)
RECURSIVE ParseOrLoop(_, _, _)
RECURSIVE ParseTerm(_, _)
RECURSIVE ParseAndLoop(_, _, _)
RECURSIVE ParseFactor(_, _)

ParseFactor(tokens, pos) ==
    LET token == CurrentToken(tokens, pos) IN
    IF token.type = "KEYWORD" THEN ParseOk(KeywordNode(token.value), pos + 1)
    ELSE IF token.type = "LPAREN" THEN
        LET inner == ParseExpression(tokens, pos + 1) IN
        IF ~inner.ok THEN inner
        ELSE IF CurrentToken(tokens, inner.pos).type # "RPAREN"
             THEN ParseFail(<<"Expected", "RPAREN", CurrentToken(tokens, inner.pos).type>>,
                            inner.pos)
             ELSE ParseOk(inner.node, inner.pos + 1)
    ELSE ParseFail(<<"Unexpected token", token.type>>, pos)

ParseAndLoop(tokens, left, pos) ==
    IF CurrentToken(tokens, pos).type = "AND" THEN
        LET right == ParseFactor(tokens, pos + 1) IN
        IF ~right.ok THEN right
        ELSE ParseAndLoop(tokens, AndNode(left, right.node), right.pos)
    ELSE ParseOk(left, pos)

ParseTerm(tokens, pos) ==
    LET left == ParseFactor(tokens, pos) IN
    IF ~left.ok THEN left ELSE ParseAndLoop(tokens, left.node, left.pos)


\* variant of ParseOrLoop: the right operand of OR is a single factor
RECURSIVE ParseOrLoop_FactorRight(_, _, _)
ParseOrLoop_FactorRight(tokens, left, pos) ==
    IF CurrentToken(tokens, pos).type = "OR" THEN
        LET right == ParseFactor(tokens, pos + 1) IN
        IF ~right.ok THEN right
        ELSE ParseOrLoop_FactorRight(tokens, OrNode(left, right.node), right.pos)
    ELSE ParseOk(left, pos)

\* _parse_expression: the `while` loop over OR tokens
ParseOrLoop(tokens, left, pos) ==
    IF CurrentToken(tokens, pos).type = "OR" THEN
        LET right == ParseTerm(tokens, pos + 1) IN
        IF ~right.ok THEN right
        ELSE ParseOrLoop(tokens, OrNode(left, right.node), right.pos)
    ELSE ParseOk(left, pos)

ParseExpression(tokens, pos) ==
    LET left == ParseTerm(tokens, pos) IN
    IF ~left.ok THEN left ELSE ParseOrLoop(tokens, left.node, left.pos)

\* str.strip() is empty
IsBlank(expr) == \A k \in 1..Len(expr) : IsSpace(expr[k])

\* legacy mode: chain all keywords with AND, left to right
RECURSIVE ChainAnd(_, _)
ChainAnd(result, kws) ==
    IF kws = <<>> THEN result
    ELSE ChainAnd(AndNode(result, KeywordNode(Head(kws))), Tail(kws))

TokenValues(toks) == [k \in 1..Len(toks) |-> toks[k].value]
IsKeywordToken(t) == t.type = "KEYWORD"

parse(expr) ==
    IF IsBlank(expr) THEN ParseFail(<<"Empty expression">>, 0)
    ELSE LET tokens == tokenize(expr)
             has_operators == \E k \in 1..Len(tokens) :
                                 tokens[k].type \in {"AND", "OR", "LPAREN"}
             keywords == TokenValues(SelectSeq(tokens, IsKeywordToken))
         IN IF ~has_operators THEN
                IF keywords = <<>> THEN ParseFail(<<"No keywords found">>, 0)
                ELSE ParseOk(ChainAnd(KeywordNode(Head(keywords)), Tail(keywords)), Len(tokens))
            ELSE ParseExpression(tokens, 0)

\* ------------------------------------------------------------------------
\* KeywordFilter
\* ------------------------------------------------------------------------

\* variant of KeywordFilter: a blank text gives a filter without root and without error
KeywordFilter_BlankWithoutError(expression) ==
    LET r == parse(expression) IN
    IF r.ok THEN [root |-> Some(r.node), parse_error |-> None]
    ELSE IF IsBlank(expression) THEN [root |-> None, parse_error |-> None]
    ELSE [root |-> None, parse_error |-> Some(r.err)]

\* KeywordFilter.__init__ and _parse: the fields _root and _parse_error
KeywordFilter(expression) ==
    LET r == parse(expression) IN
    IF r.ok THEN [root |-> Some(r.node), parse_error |-> None]
            ELSE [root |-> None, parse_error |-> Some(r.err)]

is_valid(f) == f.root # None


\* variant of matches: a filter without root lets every text through
matches_AllWhenInvalid(f, text) == IF f.root = None THEN TRUE ELSE evaluate(f.root[1], text)

\* KeywordFilter.matches
matches(f, text) == IF f.root = None THEN FALSE ELSE evaluate(f.root[1], text)

get_matched_keywords(f, text) ==
    IF f.root = None THEN <<>> ELSE node_matched_keywords(f.root[1], text)

get_all_keywords(f) == IF f.root = None THEN <<>> ELSE get_keywords(f.root[1])


\* variant of DedupKeepFirst: of a repeated keyword the last occurrence is kept
RECURSIVE DedupKeepFirst_KeepLast(_, _)
DedupKeepFirst_KeepLast(xs, acc) ==
    IF xs = <<>> THEN acc
    ELSE IF \E k \in 2..Len(xs) : xs[k] = Head(xs)
         THEN DedupKeepFirst_KeepLast(Tail(xs), acc)
         ELSE DedupKeepFirst_KeepLast(Tail(xs), Append(acc, Head(xs)))

\* list(dict.fromkeys(xs)): first occurrences, in order
RECURSIVE DedupKeepFirst(_, _)
DedupKeepFirst(xs, acc) ==
    IF xs = <<>> THEN acc
    ELSE IF \E k \in 1..Len(acc) : acc[k] = Head(xs)
         THEN DedupKeepFirst(Tail(xs), acc)
         ELSE DedupKeepFirst(Tail(xs), Append(acc, Head(xs)))

get_search_terms(f) ==
    IF f.root = None THEN <<>> ELSE DedupKeepFirst(get_keywords(f.root[1]), <<>>)


\* ========================================================================
\* ScraperManager
\* ========================================================================

\* Bounds of the explored inputs
MaxPlatforms == 2
MaxRaw == 3

\* SCRAPERS registry keys, and one identifier without a registered adapter
SCRAPERS == {"Allegro", "OLX", "Vinted"}
PlatformIds == SCRAPERS \cup {"eBay"}

\* Filter expressions a ScrapeConfig is built with
Expr_ddr5_i_ram == <<"d","d","r","5"," ","i"," ","r","a","m">>
Expr_unclosed == <<"(","d","d","r","5">>
Expressions == {Expr_ddr5_i_ram, Expr_unclosed}

\* (price_min, price_max) pairs, each bound possibly None
PriceRanges == { <<None, None>>, <<Some(100), Some(500)>>, <<Some(250), Some(900)>> }

\* What each platform's page can list: (title, price), price None when
\* parse_price found no number.  An adapter returns the parsed items in
\* page order, so a raw result list is a sub-list of the page.
Title_DDR5_RAM_16GB == <<"D","D","R","5"," ","R","A","M"," ","1","6","G","B">>
Title_DDR5_only == <<"D","D","R","5"," ","o","n","l","y">>
Title_DDR5_RAM_64GB == <<"D","D","R","5"," ","R","A","M"," ","6","4","G","B">>
Title_ddr5_ram_kit == <<"d","d","r","5"," ","r","a","m"," ","k","i","t">>
Title_Ram_DDR5 == <<"R","a","m"," ","D","D","R","5">>
Title_DDR4 == <<"D","D","R","4"," ","R","A","M">>
Listing(title, price) == [title |-> title, price |-> price]
Catalogue(portal) ==
    IF portal = "Allegro"
    THEN << Listing(Title_DDR5_RAM_16GB, Some(250)), Listing(Title_DDR5_only, Some(300)),
            Listing(Title_DDR5_RAM_64GB, Some(900)), Listing(Title_ddr5_ram_kit, None) >>
    ELSE IF portal = "OLX"
    THEN << Listing(Title_Ram_DDR5, Some(99)), Listing(Title_ddr5_ram_kit, Some(500)) >>
    ELSE << Listing(Title_DDR4, None), Listing(Title_Ram_DDR5, Some(100)) >>

\* dataclass ScrapeResult (price_text is not modelled: nothing reads it in run)
ScrapeResult(portal, title, price, url) ==
    [portal |-> portal, title |-> title, price |-> price, url |-> url,
     matched_keywords |-> <<>>]

RECURSIVE SeqOfSet(_)
SeqOfSet(S) ==
    IF S = {} THEN <<>>
    ELSE LET m == CHOOSE x \in S : \A y \in S : x <= y
         IN <<m>> \o SeqOfSet(S \ {m})

RawIndexLists(portal) ==
    { SeqOfSet(S) : S \in { T \in SUBSET (1..Len(Catalogue(portal))) :
                                Cardinality(T) <= MaxRaw } }

\* the list an adapter of `portal` builds from the page items ixs
RawResults(portal, ixs) ==
    [k \in 1..Len(ixs) |->
        ScrapeResult(portal, Catalogue(portal)[ixs[k]].title,
                     Catalogue(portal)[ixs[k]].price, ixs[k])]

\* Exceptions a search can raise: [type, msg]; msg is str(exc)
Msg_AllegroAntiBot == <<"A","l","l","e","g","r","o"," ","a","n","t","i","-","b","o","t"," ","a","c","t","i","v","e","."," ","S","p","r","o","b","u","j"," ","p","o","z","n","i","e","j"," ","l","u","b"," ","u","z","y","j"," ","V","P","N",".">>
Name_ConnectionError == <<"C","o","n","n","e","c","t","i","o","n","E","r","r","o","r">>
Exceptions == { [type |-> <<"R","e","q","u","e","s","t","E","x","c","e","p","t","i","o","n">>, msg |-> Msg_AllegroAntiBot],
                [type |-> Name_ConnectionError, msg |-> <<>>] }

\* Python dict as a function
EmptyDict == [x \in {} |-> 0]
DictSet(d, k, v) == [x \in (DOMAIN d) \cup {k} |-> IF x = k THEN v ELSE d[x]]

InjectiveSeqs(S, n) ==
    { s \in UNION { [1..m -> S] : m \in 0..n } :
        \A a, b \in DOMAIN s : a # b => s[a] # s[b] }

VARIABLES
    config,            \* ScrapeConfig: platforms, keyword_expression, price_min, price_max
    keyword_filter,    \* ScraperManager._keyword_filter
    cancel,            \* the threading.Event shared with the caller
    pc,                \* position of the worker inside run()
    idx,               \* index of the current platform in config.platforms (1-based)
    raw_results,       \* the list returned by scraper.search for the current platform
    ridx,              \* index of the current result in raw_results (1-based)
    platform_count,    \* run()'s local platform_count
    total_found,       \* _total_found
    platform_results,  \* _platform_results
    platform_errors,   \* _platform_errors
    queue,             \* the results put on the result queue so far, oldest first
    status,            \* the on_status calls so far
    done,              \* the on_done calls so far (their summaries)
    searched,          \* history: platforms whose search was invoked
    raw_log,           \* history: all raw results returned so far, concatenated
    cancel_at_start,   \* history: was the token set when run() began
    \* the scraper instance created by run() for the current platform
    a_pc,                  \* which network request of search() is in flight
    attempt,               \* AllegroScraper: index into strategies; OLXScraper: search()'s attempt
    fetch_attempt,         \* BaseScraper._fetch: its attempt
    cookies_acquired,      \* _cookies_acquired
    use_mobile,            \* AllegroScraper._use_mobile
    session,               \* identity of the requests.Session object in _session
    last_successful_ua,    \* AllegroScraper._last_successful_ua
    drission_available,    \* DRISSION_AVAILABLE (fixed at import time)
    requests,              \* history: network requests initiated by the current search
    requests_after_cancel, \* history: requests initiated while the token was set
    exhausted,             \* history: the current search ran out of retries
    raised_after_cancel,   \* history: a search raised while the token was set
    script,                \* the server's scripted answers per strategy, None when it is free
    waited,                \* history: the back-off sleeps of _fetch_with_session, oldest first
    \* MarketMapApp, the caller of run()
    is_scanning,           \* _is_scanning
    token_was_set,         \* history: _stop_scan has set the token during this worker's run
    scans_started,         \* history: number of _start_scan calls that started a worker
    done_handled,          \* history: number of on_done calls whose _update has run
    poll_pending,          \* _poll_results callbacks scheduled with after() and not yet run
    drained,               \* results of the first scan's queue that _poll_results has taken
    \* the module-level HumanSimulator and the scraper instances that hold it
    human_sim,             \* _human_sim: None, or a reference to a HumanSimulator object
    sim_objs,              \* the HumanSimulator objects created so far, by reference
    humans,                \* per scraper instance: its _human reference, None before __init__
    actor,                 \* history: the scraper instance that made the last call (0: none)
    headers,               \* the headers returned by the last get_headers call, None at first
    \* calls of the KeywordFilter methods, seen by their caller
    call,                  \* the last method call on _keyword_filter and what it returned
    terms_log              \* history: what the get_search_terms calls returned, oldest first

run_vars == <<config, keyword_filter, cancel, pc, idx, raw_results, ridx, platform_count,
              total_found, platform_results, platform_errors, queue, status, done,
              searched, raw_log, cancel_at_start>>

adapter_vars == <<a_pc, attempt, fetch_attempt, cookies_acquired, use_mobile, session,
                  last_successful_ua, drission_available, requests,
                  requests_after_cancel, exhausted, raised_after_cancel, script, waited>>

app_vars == <<is_scanning, token_was_set, scans_started, done_handled, poll_pending, drained>>

human_vars == <<human_sim, sim_objs, humans, actor, headers>>

call_vars == <<call, terms_log>>

vars == <<run_vars, adapter_vars, app_vars, human_vars, call_vars>>

ScrapeConfig(platforms, expr, pmin, pmax) ==
    [platforms |-> platforms, keyword_expression |-> expr,
     price_min |-> pmin, price_max |-> pmax]

\* ScraperManager.__init__
ManagerInit(cfg) ==
    /\ config = cfg
    /\ keyword_filter = KeywordFilter(cfg.keyword_expression)
    /\ total_found = 0
    /\ platform_results = EmptyDict
    /\ platform_errors = EmptyDict
    /\ cancel = FALSE
    /\ pc = "run"
    /\ idx = 1
    /\ raw_results = <<>>
    /\ ridx = 1
    /\ platform_count = 0
    /\ queue = <<>>
    /\ status = <<>>
    /\ done = <<>>
    /\ searched = <<>>
    /\ raw_log = <<>>
    /\ cancel_at_start = FALSE

\* a method call on the filter and its return value
MethodCall(op, text, result) == [op |-> op, text |-> text, result |-> result]

\* no method of the filter has been called yet
NoCall ==
    /\ call = MethodCall("none", <<>>, <<>>)
    /\ terms_log = <<>>

\* no scraper instance exists before run() creates one
NoScraper(drission) ==
    /\ a_pc = "idle"
    /\ attempt = 0
    /\ fetch_attempt = 0
    /\ cookies_acquired = FALSE
    /\ use_mobile = FALSE
    /\ session = 0
    /\ last_successful_ua = None
    /\ drission_available = drission
    /\ requests = 0
    /\ requests_after_cancel = 0
    /\ exhausted = FALSE
    /\ raised_after_cancel = FALSE
    /\ waited = <<>>

\* MarketMapApp right after _start_scan has started the worker
ScanStarted ==
    /\ is_scanning = TRUE
    /\ token_was_set = FALSE
    /\ scans_started = 1
    /\ done_handled = 0
    /\ poll_pending = 1
    /\ drained = 0

\* the module before the first get_human_simulator() call: _human_sim = None
NoHuman ==
    /\ human_sim = None
    /\ sim_objs = <<>>
    /\ humans = <<>>
    /\ actor = 0
    /\ headers = None

Init ==
    \E ps \in InjectiveSeqs(PlatformIds, MaxPlatforms), e \in Expressions, pr \in PriceRanges :
        /\ ManagerInit(ScrapeConfig(ps, e, pr[1], pr[2]))
        /\ NoScraper(FALSE)
        /\ script = None
        /\ NoCall
        /\ ScanStarted
        /\ NoHuman


\* variant of PriceInRange: a result whose price is unknown is rejected
PriceInRange_RejectUnknown(price, price_min, price_max) ==
    /\ price # None
    /\ ~(price_min # None /\ price[1] < price_min[1])
    /\ ~(price_max # None /\ price[1] > price_max[1])

\* the price test of _passes_filter
PriceInRange(price, price_min, price_max) ==
    IF price # None
    THEN /\ ~(price_min # None /\ price[1] < price_min[1])
         /\ ~(price_max # None /\ price[1] > price_max[1])
    ELSE TRUE


\* variant of PassesFilter: without a compiled filter only the price is tested
PassesFilter_PriceOnlyWhenInvalid(f, cfg, result) ==
    IF is_valid(f) /\ ~matches(f, result.title) THEN FALSE
    ELSE PriceInRange(result.price, cfg.price_min, cfg.price_max)

\* _passes_filter: the returned bool
PassesFilter(f, cfg, result) ==
    IF ~matches(f, result.title) THEN FALSE
    ELSE PriceInRange(result.price, cfg.price_min, cfg.price_max)

\* variant of AfterPassesFilter: the matched keywords are not stored on the result
AfterPassesFilter_NotStored(f, result) == result


\* _passes_filter: the result object after the call
AfterPassesFilter(f, result) ==
    IF ~matches(f, result.title) THEN result
    ELSE [result EXCEPT !.matched_keywords = get_matched_keywords(f, result.title)]

\* status messages and summary parts
StatusMsg(kind, platform, value) == [kind |-> kind, platform |-> platform, value |-> value]

ShortErr(err) == IF Len(err) > 30 THEN SubSeq(err, 1, 27) \o <<".", ".", ".">> ELSE err


\* variant of SummaryPart: a platform without a recorded count is shown with 0
SummaryPart_ZeroDefault(platform, results, errors) ==
    IF platform \in DOMAIN errors
    THEN [platform |-> platform, kind |-> "error", value |-> ShortErr(errors[platform])]
    ELSE IF platform \in DOMAIN results
    THEN [platform |-> platform, kind |-> "count", value |-> results[platform]]
    ELSE [platform |-> platform, kind |-> "count", value |-> 0]
SummaryPart(platform, results, errors) ==
    IF platform \in DOMAIN errors
    THEN [platform |-> platform, kind |-> "error", value |-> ShortErr(errors[platform])]
    ELSE IF platform \in DOMAIN results
    THEN [platform |-> platform, kind |-> "count", value |-> results[platform]]
    ELSE [platform |-> platform, kind |-> "dash", value |-> 0]

\* _build_summary
BuildSummary(cfg, total, results, errors) ==
    [total |-> total,
     parts |-> [k \in 1..Len(cfg.platforms) |->
                   SummaryPart(cfg.platforms[k], results, errors)]]

\* err_msg = str(exc) if str(exc) else type(exc).__name__
ErrMsg(exc) == IF exc.msg # <<>> THEN exc.msg ELSE exc.type

Platform == config.platforms[idx]

\* run(): search_keywords = self.get_search_keywords()
RunStart ==
    /\ pc = "run"
    /\ pc' = "loop"
    /\ cancel_at_start' = cancel
    /\ UNCHANGED <<config, keyword_filter, cancel, idx, raw_results, ridx, platform_count,
                   total_found, platform_results, platform_errors, queue, status, done,
                   searched, raw_log>>
    /\ UNCHANGED <<adapter_vars, call_vars, app_vars, human_vars>>


\* variant of LoopTop: the token is not looked at before a platform is scanned
LoopTop_NoCancelCheck ==
    /\ pc = "loop"
    /\ IF idx > Len(config.platforms)
       THEN /\ pc' = "emit_done"
            /\ UNCHANGED <<idx, status>>
       ELSE IF Platform \notin SCRAPERS
       THEN /\ idx' = idx + 1
            /\ UNCHANGED <<pc, status>>
       ELSE /\ status' = Append(status, StatusMsg("scanning", Platform, 0))
            /\ pc' = "search"
            /\ UNCHANGED idx
    /\ UNCHANGED <<config, keyword_filter, cancel, raw_results, ridx, platform_count,
                   total_found, platform_results, platform_errors, queue, done,
                   searched, raw_log, cancel_at_start>>
    /\ UNCHANGED <<adapter_vars, call_vars, app_vars, human_vars>>

\* variant of LoopTop: "Scanning" is reported before the adapter is looked up
LoopTop_ScanningBeforeLookup ==
    /\ pc = "loop"
    /\ IF idx > Len(config.platforms) \/ cancel
       THEN /\ pc' = "emit_done"
            /\ UNCHANGED <<idx, status>>
       ELSE IF Platform \notin SCRAPERS
       THEN /\ status' = Append(status, StatusMsg("scanning", Platform, 0))
            /\ idx' = idx + 1
            /\ UNCHANGED pc
       ELSE /\ status' = Append(status, StatusMsg("scanning", Platform, 0))
            /\ pc' = "search"
            /\ UNCHANGED idx
    /\ UNCHANGED <<config, keyword_filter, cancel, raw_results, ridx, platform_count,
                   total_found, platform_results, platform_errors, queue, done,
                   searched, raw_log, cancel_at_start>>
    /\ UNCHANGED <<adapter_vars, call_vars, app_vars, human_vars>>

\* top of `for platform in self._config.platforms`, up to the "Scanning" status
LoopTop ==
    /\ pc = "loop"
    /\ IF idx > Len(config.platforms) \/ cancel
       THEN /\ pc' = "emit_done"
            /\ UNCHANGED <<idx, status>>
       ELSE IF Platform \notin SCRAPERS
       THEN /\ idx' = idx + 1
            /\ UNCHANGED <<pc, status>>
       ELSE /\ status' = Append(status, StatusMsg("scanning", Platform, 0))
            /\ pc' = "search"
            /\ UNCHANGED idx
    /\ UNCHANGED <<config, keyword_filter, cancel, raw_results, ridx, platform_count,
                   total_found, platform_results, platform_errors, queue, done,
                   searched, raw_log, cancel_at_start>>
    /\ UNCHANGED <<adapter_vars, call_vars, app_vars, human_vars>>

\* scraper.search(...) returned raw: enter the result loop
SearchReturns(raw) ==
    /\ raw_results' = raw
    /\ raw_log' = raw_log \o raw
    /\ ridx' = 1
    /\ platform_count' = 0
    /\ pc' = "item_check"
    /\ UNCHANGED <<idx, platform_errors, status>>


\* variant of SearchRaises: a failing platform ends the whole run
SearchRaises_Abort(exc) ==
    /\ platform_errors' = DictSet(platform_errors, Platform, ErrMsg(exc))
    /\ status' = Append(status, StatusMsg("error", Platform, ErrMsg(exc)))
    /\ idx' = idx + 1
    /\ pc' = "emit_done"
    /\ UNCHANGED <<raw_results, raw_log, ridx, platform_count>>

\* scraper.search(...) raised exc: the `except Exception` handler
SearchRaises(exc) ==
    /\ platform_errors' = DictSet(platform_errors, Platform, ErrMsg(exc))
    /\ status' = Append(status, StatusMsg("error", Platform, ErrMsg(exc)))
    /\ idx' = idx + 1
    /\ pc' = "loop"
    /\ UNCHANGED <<raw_results, raw_log, ridx, platform_count>>

\* scraper_cls().search(...), seen from run(): it returns a list or raises
Search ==
    /\ pc = "search"
    /\ searched' = Append(searched, Platform)
    /\ \/ \E ixs \in RawIndexLists(Platform) : SearchReturns(RawResults(Platform, ixs))
       \/ \E exc \in Exceptions : SearchRaises(exc)
    /\ UNCHANGED <<config, keyword_filter, cancel, total_found, platform_results,
                   queue, done, cancel_at_start>>
    /\ UNCHANGED <<adapter_vars, call_vars, app_vars, human_vars>>

\* variant of ItemCheck: the result loop does not look at the token
ItemCheck_NoCancelCheck ==
    /\ pc = "item_check"
    /\ IF ridx > Len(raw_results)
       THEN pc' = "source_done"
       ELSE pc' = "item_filter"
    /\ UNCHANGED <<config, keyword_filter, cancel, idx, raw_results, ridx, platform_count,
                   total_found, platform_results, platform_errors, queue, status, done,
                   searched, raw_log, cancel_at_start>>
    /\ UNCHANGED <<adapter_vars, call_vars, app_vars, human_vars>>

\* `for result in raw_results: if self._cancel.is_set(): break`
ItemCheck ==
    /\ pc = "item_check"
    /\ IF ridx > Len(raw_results) \/ cancel
       THEN pc' = "source_done"
       ELSE pc' = "item_filter"
    /\ UNCHANGED <<config, keyword_filter, cancel, idx, raw_results, ridx, platform_count,
                   total_found, platform_results, platform_errors, queue, status, done,
                   searched, raw_log, cancel_at_start>>
    /\ UNCHANGED <<adapter_vars, call_vars, app_vars, human_vars>>


\* variant of ItemFilter: an accepted result is put at the head of the queue
ItemFilter_PutFirst ==
    /\ pc = "item_filter"
    /\ LET result == AfterPassesFilter(keyword_filter, raw_results[ridx]) IN
       /\ raw_results' = [raw_results EXCEPT ![ridx] = result]
       /\ IF PassesFilter(keyword_filter, config, raw_results[ridx])
          THEN /\ total_found' = total_found + 1
               /\ platform_count' = platform_count + 1
               /\ queue' = <<result>> \o queue
          ELSE UNCHANGED <<total_found, platform_count, queue>>
    /\ ridx' = ridx + 1
    /\ pc' = "item_check"
    /\ UNCHANGED <<config, keyword_filter, cancel, idx, platform_results, platform_errors,
                   status, done, searched, raw_log, cancel_at_start>>
    /\ UNCHANGED <<adapter_vars, call_vars, app_vars, human_vars>>

\* `if self._passes_filter(result): ... self._queue.put(result)`
ItemFilter ==
    /\ pc = "item_filter"
    /\ LET result == AfterPassesFilter(keyword_filter, raw_results[ridx]) IN
       /\ raw_results' = [raw_results EXCEPT ![ridx] = result]
       /\ IF PassesFilter(keyword_filter, config, raw_results[ridx])
          THEN /\ total_found' = total_found + 1
               /\ platform_count' = platform_count + 1
               /\ queue' = Append(queue, result)
          ELSE UNCHANGED <<total_found, platform_count, queue>>
    /\ ridx' = ridx + 1
    /\ pc' = "item_check"
    /\ UNCHANGED <<config, keyword_filter, cancel, idx, platform_results, platform_errors,
                   status, done, searched, raw_log, cancel_at_start>>
    /\ UNCHANGED <<adapter_vars, call_vars, app_vars, human_vars>>


\* variant of SourceDone: a cancelled result loop leaves the platform unrecorded
SourceDone_SkipWhenCancelled ==
    /\ pc = "source_done"
    /\ IF cancel
       THEN UNCHANGED <<platform_results, status>>
       ELSE /\ platform_results' = DictSet(platform_results, Platform, platform_count)
            /\ status' = Append(status, StatusMsg("matches", Platform, platform_count))
    /\ idx' = idx + 1
    /\ pc' = "loop"
    /\ UNCHANGED <<config, keyword_filter, cancel, raw_results, ridx, platform_count,
                   total_found, platform_errors, queue, done, searched, raw_log,
                   cancel_at_start>>
    /\ UNCHANGED <<adapter_vars, call_vars, app_vars, human_vars>>

\* variant of SourceDone: the count is also entered in the error map
SourceDone_AlsoError ==
    /\ pc = "source_done"
    /\ platform_results' = DictSet(platform_results, Platform, platform_count)
    /\ platform_errors' = DictSet(platform_errors, Platform, <<>>)
    /\ status' = Append(status, StatusMsg("matches", Platform, platform_count))
    /\ idx' = idx + 1
    /\ pc' = "loop"
    /\ UNCHANGED <<config, keyword_filter, cancel, raw_results, ridx, platform_count,
                   total_found, queue, done, searched, raw_log, cancel_at_start>>
    /\ UNCHANGED <<adapter_vars, call_vars, app_vars, human_vars>>

\* after the result loop: record the count and report it
SourceDone ==
    /\ pc = "source_done"
    /\ platform_results' = DictSet(platform_results, Platform, platform_count)
    /\ status' = Append(status, StatusMsg("matches", Platform, platform_count))
    /\ idx' = idx + 1
    /\ pc' = "loop"
    /\ UNCHANGED <<config, keyword_filter, cancel, raw_results, ridx, platform_count,
                   total_found, platform_errors, queue, done, searched, raw_log,
                   cancel_at_start>>
    /\ UNCHANGED <<adapter_vars, call_vars, app_vars, human_vars>>


\* variant of EmitDone: the callback is fired again instead of run() returning
EmitDone_Repeat ==
    /\ pc = "emit_done"
    /\ Len(done) < 2
    /\ done' = Append(done, BuildSummary(config, total_found, platform_results,
                                         platform_errors))
    /\ pc' = "emit_done"
    /\ UNCHANGED <<config, keyword_filter, cancel, idx, raw_results, ridx, platform_count,
                   total_found, platform_results, platform_errors, queue, status,
                   searched, raw_log, cancel_at_start>>
    /\ UNCHANGED <<adapter_vars, call_vars, app_vars, human_vars>>

\* `if self._on_done: self._on_done(self._build_summary())`
EmitDone ==
    /\ pc = "emit_done"
    /\ done' = Append(done, BuildSummary(config, total_found, platform_results,
                                         platform_errors))
    /\ pc' = "finished"
    /\ UNCHANGED <<config, keyword_filter, cancel, idx, raw_results, ridx, platform_count,
                   total_found, platform_results, platform_errors, queue, status,
                   searched, raw_log, cancel_at_start>>
    /\ UNCHANGED <<adapter_vars, call_vars, app_vars, human_vars>>

\* the caller sets the cancellation token (MarketMapApp._stop_scan)
Cancel ==
    /\ ~cancel
    /\ pc # "finished"
    /\ cancel' = TRUE
    /\ UNCHANGED <<config, keyword_filter, pc, idx, raw_results, ridx, platform_count,
                   total_found, platform_results, platform_errors, queue, status, done,
                   searched, raw_log, cancel_at_start>>
    /\ UNCHANGED <<adapter_vars, call_vars, app_vars, human_vars>>

Next ==
    \/ RunStart
    \/ LoopTop
    \/ Search
    \/ ItemCheck
    \/ ItemFilter
    \/ SourceDone
    \/ EmitDone
    \/ Cancel

Spec == Init /\ [][Next]_vars


\* ========================================================================
\* MarketMapApp: the window that starts and stops the worker. It owns the
\* one threading.Event that every ScraperManager it creates is given. The
\* model follows the worker of the first scan; a later _start_scan starts
\* another worker with its own manager and queue, of which only the shared
\* token is seen here.
\* ========================================================================

MaxScans == 2

\* the platform lists _start_scan can build from its three checkboxes
GuiPlatformLists ==
    { ps \in InjectiveSeqs(SCRAPERS, MaxPlatforms) :
        /\ ps # <<>>
        /\ \A a, b \in DOMAIN ps :
             a < b => \/ ps[a] = "Allegro"
                      \/ ps[a] = "OLX" /\ ps[b] = "Vinted" }

\* _on_start_stop while scanning: _stop_scan
StopScan ==
    /\ is_scanning
    /\ cancel' = TRUE
    /\ is_scanning' = FALSE
    /\ token_was_set' = (token_was_set \/ pc # "finished")
    /\ UNCHANGED <<scans_started, done_handled, poll_pending, drained>>
    /\ UNCHANGED <<config, keyword_filter, pc, idx, raw_results, ridx, platform_count,
                   total_found, platform_results, platform_errors, queue, status, done,
                   searched, raw_log, cancel_at_start>>
    /\ UNCHANGED <<adapter_vars, call_vars, human_vars>>

\* _on_start_stop while not scanning: _start_scan with valid inputs clears the
\* token and starts a new worker; the earlier worker is neither joined nor asked
StartScan ==
    /\ ~is_scanning
    /\ scans_started < MaxScans
    /\ cancel' = FALSE
    /\ is_scanning' = TRUE
    /\ scans_started' = scans_started + 1
    /\ poll_pending' = poll_pending + 1
    /\ UNCHANGED <<token_was_set, done_handled, drained>>
    /\ UNCHANGED <<config, keyword_filter, pc, idx, raw_results, ridx, platform_count,
                   total_found, platform_results, platform_errors, queue, status, done,
                   searched, raw_log, cancel_at_start>>
    /\ UNCHANGED <<adapter_vars, call_vars, human_vars>>

\* the _update closure that _thread_safe_done scheduled with after(0, ...)
DoneUpdate ==
    /\ done_handled < Len(done)
    /\ is_scanning' = FALSE
    /\ done_handled' = done_handled + 1
    /\ UNCHANGED <<token_was_set, scans_started, poll_pending, drained>>
    /\ UNCHANGED <<run_vars, adapter_vars, call_vars, human_vars>>

\* variant of PollResults: a callback that finds the scan over returns at once
PollResults_ScanningFirst ==
    /\ poll_pending > 0
    /\ drained' = IF scans_started = 1 /\ is_scanning THEN Len(queue) ELSE drained
    /\ poll_pending' = IF is_scanning THEN poll_pending ELSE poll_pending - 1
    /\ UNCHANGED <<is_scanning, token_was_set, scans_started, done_handled>>
    /\ UNCHANGED <<run_vars, adapter_vars, call_vars, human_vars>>

\* a scheduled _poll_results runs: it empties self._result_queue, which is the
\* first scan's queue until _start_scan replaces it, and schedules itself
\* again while scanning
PollResults ==
    /\ poll_pending > 0
    /\ drained' = IF scans_started = 1 THEN Len(queue) ELSE drained
    /\ poll_pending' = IF is_scanning THEN poll_pending ELSE poll_pending - 1
    /\ UNCHANGED <<is_scanning, token_was_set, scans_started, done_handled>>
    /\ UNCHANGED <<run_vars, adapter_vars, call_vars, human_vars>>

InitApp ==
    \E ps \in GuiPlatformLists, pr \in PriceRanges :
        /\ ManagerInit(ScrapeConfig(ps, Expr_ddr5_i_ram, pr[1], pr[2]))
        /\ NoScraper(FALSE)
        /\ script = None
        /\ NoCall
        /\ ScanStarted
        /\ NoHuman

NextApp ==
    \/ RunStart
    \/ LoopTop
    \/ Search
    \/ ItemCheck
    \/ ItemFilter
    \/ SourceDone
    \/ EmitDone
    \/ StopScan
    \/ StartScan
    \/ DoneUpdate
    \/ PollResults

SpecApp == InitApp /\ [][NextApp]_vars

\* ------------------------------------------------------------------------
\* one scan that the user never stops: the worker, the _update callback and
\* the polling callback, with an event loop that keeps running its callbacks
\* and a worker thread that keeps running
\* ------------------------------------------------------------------------
Worker ==
    \/ RunStart
    \/ LoopTop
    \/ Search
    \/ ItemCheck
    \/ ItemFilter
    \/ SourceDone
    \/ EmitDone

NextPoll ==
    \/ Worker
    \/ DoneUpdate
    \/ PollResults

SpecPoll ==
    /\ InitApp
    /\ [][NextPoll]_vars
    /\ WF_vars(Worker)
    /\ WF_vars(DoneUpdate)
    /\ WF_vars(PollResults)


\* ========================================================================
\* The platform scrapers: AllegroScraper, OLXScraper, VintedScraper
\*
\* The worker blocks in every network call, so a step of a scraper runs from
\* the arrival of one response up to the initiation of the next request (or
\* to the end of search()); a_pc names the request that is in flight.
\* ========================================================================

AllegroMaxRetries == 5
BaseMaxRetries == 3
AdapterRunPlatforms == 1

\* variant of Strategies: the mobile strategies come in the other order
Strategies_ReuseFirst == << [mobile |-> FALSE, fresh_session |-> FALSE],
                            [mobile |-> FALSE, fresh_session |-> TRUE],
                            [mobile |-> TRUE,  fresh_session |-> FALSE],
                            [mobile |-> TRUE,  fresh_session |-> TRUE],
                            [mobile |-> FALSE, fresh_session |-> TRUE] >>

\* _fetch_with_session: strategies
Strategies == << [mobile |-> FALSE, fresh_session |-> FALSE],
                 [mobile |-> FALSE, fresh_session |-> TRUE],
                 [mobile |-> TRUE,  fresh_session |-> TRUE],
                 [mobile |-> TRUE,  fresh_session |-> FALSE],
                 [mobile |-> FALSE, fresh_session |-> TRUE] >>

\* the exception raised at the end of _fetch_with_session
AllegroAntiBot == [type |-> <<"R","e","q","u","e","s","t","E","x","c","e","p","t","i","o","n">>, msg |-> Msg_AllegroAntiBot]

\* what the landing-page request of _warm_up_session can come back with
WarmOutcomes == {"ok", "challenge", "other_status", "exception"}
\* what the listing request of _fetch_with_session can come back with
AllegroBlocked == {"429", "403", "challenge", "http_error", "exception", "no_listing"}
\* what the request of BaseScraper._fetch can come back with
BaseBlocked == {"429", "403", "http_error", "exception"}

search_frame == <<config, keyword_filter, cancel, total_found, platform_results, queue, done,
                  cancel_at_start>>

\* the scraper's fields after a step; prev + nreq requests have been initiated
SetScraper(apc, att, fatt, cook, mob, sess, ua, prev, nreq, exh) ==
    /\ a_pc' = apc
    /\ attempt' = att
    /\ fetch_attempt' = fatt
    /\ cookies_acquired' = cook
    /\ use_mobile' = mob
    /\ session' = sess
    /\ last_successful_ua' = ua
    /\ requests' = prev + nreq
    /\ requests_after_cancel' = requests_after_cancel + (IF cancel THEN nreq ELSE 0)
    /\ exhausted' = exh
    /\ UNCHANGED <<drission_available, script, waited>>
    /\ UNCHANGED <<call_vars, app_vars, human_vars>>

\* search() is still running: run() sees nothing
StayInSearch ==
    /\ UNCHANGED <<search_frame, pc, idx, raw_results, raw_log, ridx, platform_count,
                   platform_errors, status>>
    /\ UNCHANGED raised_after_cancel

\* search() returns raw to run()
Return(raw) ==
    /\ SearchReturns(raw)
    /\ UNCHANGED search_frame
    /\ UNCHANGED raised_after_cancel

\* search() raises exc to run()
Raise(exc) ==
    /\ SearchRaises(exc)
    /\ UNCHANGED search_frame
    /\ raised_after_cancel' = (raised_after_cancel \/ cancel)

\* the item loop of search(): `if cancel_event.is_set(): break` before each item
ParsePage(portal, ixs) == IF cancel THEN <<>> ELSE RawResults(portal, ixs)

\* _search_with_drission: the listings that pass the price hints
DrissionResults(ixs) ==
    LET InRange(r) == PriceInRange(r.price, config.price_min, config.price_max)
    IN SelectSeq(RawResults("Allegro", ixs), InRange)

\* AllegroScraper.search after _fetch_with_session raised
AllegroExhausted(k, cook, mob, sess, ua, prev) ==
    IF drission_available
    THEN /\ SetScraper("al_drission", k, 0, cook, mob, sess, ua, prev, 1, TRUE)
         /\ StayInSearch
    ELSE /\ SetScraper("idle", k, 0, cook, mob, sess, ua, prev, 0, TRUE)
         /\ Raise(AllegroAntiBot)


\* variant of AllegroAttempt: the last strategy of the list is never tried
AllegroAttempt_FourStrategies(k, cook, mob, sess, ua, prev) ==
    IF k >= AllegroMaxRetries - 1 \/ k >= Len(Strategies)
    THEN AllegroExhausted(k, cook, mob, sess, ua, prev)
    ELSE LET strategy == Strategies[k + 1]
             cook1 == IF strategy.fresh_session THEN FALSE ELSE cook
             sess1 == IF strategy.fresh_session THEN sess + 1 ELSE sess
         IN /\ IF cook1
               THEN SetScraper("al_fetch", k, 0, cook1, strategy.mobile, sess1, ua, prev, 1, FALSE)
               ELSE SetScraper("al_warm", k, 0, cook1, strategy.mobile, sess1, ua, prev, 1, FALSE)
            /\ StayInSearch

\* _fetch_with_session: the loop body for strategy k (0-based) up to its first
\* request; cook, sess, ua are the fields left by the previous strategy
AllegroAttempt(k, cook, mob, sess, ua, prev) ==
    IF k >= AllegroMaxRetries \/ k >= Len(Strategies)
    THEN AllegroExhausted(k, cook, mob, sess, ua, prev)
    ELSE LET strategy == Strategies[k + 1]
             cook1 == IF strategy.fresh_session THEN FALSE ELSE cook
             sess1 == IF strategy.fresh_session THEN sess + 1 ELSE sess
         IN /\ IF cook1
               THEN SetScraper("al_fetch", k, 0, cook1, strategy.mobile, sess1, ua, prev, 1, FALSE)
               ELSE SetScraper("al_warm", k, 0, cook1, strategy.mobile, sess1, ua, prev, 1, FALSE)
            /\ StayInSearch

\* variant of OlxAttempt: the loop of search() has one more iteration
OlxAttempt_OneMore(k, cook, prev) ==
    IF k >= 2 + BaseMaxRetries
    THEN /\ SetScraper("idle", k, 0, cook, FALSE, session, None, prev, 0, TRUE)
         /\ Return(<<>>)
    ELSE IF cancel
    THEN /\ SetScraper("idle", k, 0, cook, FALSE, session, None, prev, 0, FALSE)
         /\ Return(<<>>)
    ELSE /\ SetScraper("base_fetch", k, 0, cook, FALSE, session, None, prev, 1, FALSE)
         /\ StayInSearch

\* OLXScraper.search: iteration k (0-based) of `for attempt in range(1 + MAX_RETRIES)`
\* up to the first request of _fetch, or the end of search() when the loop is over
OlxAttempt(k, cook, prev) ==
    IF k >= 1 + BaseMaxRetries
    THEN /\ SetScraper("idle", k, 0, cook, FALSE, session, None, prev, 0, TRUE)
         /\ Return(<<>>)
    ELSE IF cancel
    THEN /\ SetScraper("idle", k, 0, cook, FALSE, session, None, prev, 0, FALSE)
         /\ Return(<<>>)
    ELSE /\ SetScraper("base_fetch", k, 0, cook, FALSE, session, None, prev, 1, FALSE)
         /\ StayInSearch

\* how the current strategy attempt ends, seen from _fetch_with_session: one of
\* its `continue` paths, the warm-up returning False, or the returned soup
OutcomeKind(o) ==
    IF o \in {"429", "403", "challenge", "no_listing"} THEN o
    ELSE IF o \in {"http_error", "exception"} THEN "neterr"
    ELSE o

ScriptEntry(kind, payload) == [kind |-> kind, payload |-> payload]

\* the server can end the current strategy attempt with entry e: it is free,
\* or e is what its script holds for this attempt
Scripted(e) ==
    IF script = None THEN TRUE
    ELSE attempt < Len(script[1]) /\ script[1][attempt + 1] = e

\* the current attempt is not scripted to fail in the warm-up
WarmUpMayPass == script = None \/ ~Scripted(ScriptEntry("warm", <<>>))

\* scraper_cls() and the start of search(): the entry check of the token and
\* the code up to the first request
SearchBegin ==
    /\ pc = "search"
    /\ a_pc = "idle"
    /\ searched' = Append(searched, Platform)
    /\ IF cancel
       THEN /\ SetScraper("idle", 0, 0, FALSE, FALSE, 1, None, 0, 0, FALSE)
            /\ Return(<<>>)
       ELSE IF Platform = "Allegro"
       THEN AllegroAttempt(0, FALSE, FALSE, 1, None, 0)
       ELSE /\ SetScraper(IF Platform = "OLX" THEN "olx_warm" ELSE "vin_warm",
                          0, 0, FALSE, FALSE, 1, None, 0, 1, FALSE)
            /\ StayInSearch

\* AllegroScraper._warm_up_session: the landing page answered
AllegroWarmResponse ==
    /\ a_pc = "al_warm"
    /\ UNCHANGED searched
    /\ \E o \in WarmOutcomes :
         IF o = "ok"
         THEN LET ua == Some(IF use_mobile THEN "mobile" ELSE "desktop") IN
              /\ \/ /\ WarmUpMayPass
                    /\ SetScraper("al_fetch", attempt, 0, TRUE, use_mobile, session, ua,
                                  requests, 1, FALSE)
                 \/ SetScraper("al_category", attempt, 0, TRUE, use_mobile, session, ua,
                               requests, 1, FALSE)
              /\ StayInSearch
         ELSE /\ Scripted(ScriptEntry("warm", <<>>))
              /\ AllegroAttempt(attempt + 1, cookies_acquired, use_mobile, session,
                                last_successful_ua, requests)

\* AllegroScraper._warm_up_session: the optional category page answered
AllegroCategoryResponse ==
    /\ a_pc = "al_category"
    /\ UNCHANGED searched
    /\ \/ /\ WarmUpMayPass
          /\ SetScraper("al_fetch", attempt, 0, cookies_acquired, use_mobile, session,
                        last_successful_ua, requests, 1, FALSE)
          /\ StayInSearch
       \/ /\ Scripted(ScriptEntry("warm", <<>>))
          /\ AllegroAttempt(attempt + 1, cookies_acquired, use_mobile, session,
                            last_successful_ua, requests)

\* variant of AllegroFetchResponse: a blocked listing request keeps the session flag
AllegroFetchResponse_KeepCookies ==
    /\ a_pc = "al_fetch"
    /\ UNCHANGED searched
    /\ \/ \E o \in AllegroBlocked :
             /\ Scripted(ScriptEntry(OutcomeKind(o), <<>>))
             /\ AllegroAttempt(attempt + 1, cookies_acquired, use_mobile, session,
                               last_successful_ua, requests)
       \/ \E ixs \in RawIndexLists("Allegro") :
             /\ Scripted(ScriptEntry("success", ixs))
             /\ SetScraper("idle", attempt, 0, cookies_acquired, use_mobile, session,
                           last_successful_ua, requests, 0, FALSE)
             /\ Return(ParsePage("Allegro", ixs))

\* _fetch_with_session: the listing request answered
AllegroFetchResponse ==
    /\ a_pc = "al_fetch"
    /\ UNCHANGED searched
    /\ \/ \E o \in AllegroBlocked :
             /\ Scripted(ScriptEntry(OutcomeKind(o), <<>>))
             /\ AllegroAttempt(attempt + 1, FALSE, use_mobile, session, last_successful_ua,
                               requests)
       \/ \E ixs \in RawIndexLists("Allegro") :
             /\ Scripted(ScriptEntry("success", ixs))
             /\ SetScraper("idle", attempt, 0, cookies_acquired, use_mobile, session,
                           last_successful_ua, requests, 0, FALSE)
             /\ Return(ParsePage("Allegro", ixs))

\* _search_with_drission: the browser fetch ended (a failure gives no listings)
AllegroDrissionResponse ==
    /\ a_pc = "al_drission"
    /\ UNCHANGED searched
    /\ SetScraper("idle", attempt, 0, cookies_acquired, use_mobile, session,
                  last_successful_ua, requests, 0, exhausted)
    /\ \E ixs \in RawIndexLists("Allegro") : Return(DrissionResults(ixs))

\* OLXScraper._warm_up_session: the home page answered (ok: status 200)
OlxWarmResponse ==
    /\ a_pc = "olx_warm"
    /\ UNCHANGED searched
    /\ \E ok \in BOOLEAN : OlxAttempt(0, ok, requests)

\* VintedScraper._warm_up_session: the home page answered; _fetch follows
VintedWarmResponse ==
    /\ a_pc = "vin_warm"
    /\ UNCHANGED searched
    /\ \E ok \in BOOLEAN :
         SetScraper("base_fetch", 0, 0, ok, FALSE, session, None, requests, 1, FALSE)
    /\ StayInSearch

\* BaseScraper._fetch: a request answered, in OLXScraper.search or VintedScraper.search
BaseFetchResponse ==
    /\ a_pc = "base_fetch"
    /\ UNCHANGED searched
    /\ \/ \E o \in BaseBlocked :
             IF fetch_attempt + 1 < BaseMaxRetries
             THEN /\ SetScraper("base_fetch", attempt, fetch_attempt + 1, cookies_acquired,
                                FALSE, session, None, requests, 1, FALSE)
                  /\ StayInSearch
             ELSE IF Platform = "OLX"
             THEN OlxAttempt(attempt + 1, FALSE, requests)
             ELSE /\ SetScraper("idle", attempt, 0, cookies_acquired, FALSE, session, None,
                                requests, 0, TRUE)
                  /\ Return(<<>>)
       \/ \E ixs \in RawIndexLists(Platform) :
             IF Platform = "OLX" /\ ixs = <<>>
             THEN OlxAttempt(attempt + 1, cookies_acquired, requests)
             ELSE /\ SetScraper("idle", attempt, 0, cookies_acquired, FALSE, session, None,
                                requests, 0, FALSE)
                  /\ Return(ParsePage(Platform, ixs))

InitAdapter ==
    \E ps \in InjectiveSeqs(PlatformIds, AdapterRunPlatforms), d \in BOOLEAN :
        /\ ManagerInit(ScrapeConfig(ps, Expr_ddr5_i_ram, Some(100), Some(500)))
        /\ NoScraper(d)
        /\ script = None
        /\ NoCall
        /\ ScanStarted
        /\ NoHuman

NextAdapter ==
    \/ RunStart
    \/ LoopTop
    \/ SearchBegin
    \/ AllegroWarmResponse
    \/ AllegroCategoryResponse
    \/ AllegroFetchResponse
    \/ AllegroDrissionResponse
    \/ OlxWarmResponse
    \/ VintedWarmResponse
    \/ BaseFetchResponse
    \/ ItemCheck
    \/ ItemFilter
    \/ SourceDone
    \/ EmitDone
    \/ Cancel

SpecAdapter == InitAdapter /\ [][NextAdapter]_vars

\* ------------------------------------------------------------------------
\* AllegroScraper against a server that answers from a script: one entry per
\* strategy attempt, blocked entries followed by at most one success
\* ------------------------------------------------------------------------
BlockedKinds == {"403", "429", "challenge", "warm", "neterr"}

BlockedScripts(n) == [1..n -> {ScriptEntry(b, <<>>) : b \in BlockedKinds}]

\* the listing pages a scripted success carries: the first n items of the catalogue
ScriptPayloads == { [k \in 1..n |-> k] : n \in 0..MaxRaw } \cap RawIndexLists("Allegro")

Scripts ==
    UNION { { Append(bs, ScriptEntry("success", ixs)) : ixs \in ScriptPayloads }
              : bs \in UNION { BlockedScripts(n) : n \in 0..(AllegroMaxRetries - 1) } }
    \cup BlockedScripts(AllegroMaxRetries)

InitFetch ==
    \E s \in Scripts :
        /\ ManagerInit(ScrapeConfig(<<"Allegro">>, Expr_ddr5_i_ram, Some(100), Some(500)))
        /\ NoScraper(FALSE)
        /\ script = Some(s)
        /\ NoCall
        /\ ScanStarted
        /\ NoHuman

NextFetch ==
    \/ RunStart
    \/ LoopTop
    \/ SearchBegin
    \/ AllegroWarmResponse
    \/ AllegroCategoryResponse
    \/ AllegroFetchResponse
    \/ ItemCheck
    \/ ItemFilter
    \/ SourceDone
    \/ EmitDone

SpecFetch == InitFetch /\ [][NextFetch]_vars

\* ------------------------------------------------------------------------
\* The timing of _fetch_with_session: the sleep at the head of each loop
\* iteration. Time is counted in ticks; random.uniform(0, 2) gives any
\* number of ticks from 0 to 2 seconds.
\* ------------------------------------------------------------------------
TicksPerSecond == 2

\* wait_time = min(30, (2 ** attempt) + random.uniform(0, 2))
BackoffCap == 30
JitterMax == 2

Min(a, b) == IF a <= b THEN a ELSE b

Jitters == 0..(JitterMax * TicksPerSecond)


\* variant of wait_time: the base starts at one second
wait_time_FromOne(k, jitter) ==
    Min(BackoffCap * TicksPerSecond, (2 ^ (k - 1)) * TicksPerSecond + jitter)

\* the sleep before loop iteration k (0-based), in ticks
wait_time(k, jitter) ==
    Min(BackoffCap * TicksPerSecond, (2 ^ k) * TicksPerSecond + jitter)

backoff_frame == <<run_vars, app_vars, human_vars, call_vars, fetch_attempt, cookies_acquired,
                   use_mobile, session, last_successful_ua, drission_available, requests,
                   requests_after_cancel, raised_after_cancel, script>>

\* the head of `for attempt, strategy in enumerate(strategies[:self.MAX_RETRIES])`:
\* `if attempt > 0: time.sleep(wait_time)`
BackoffSleep ==
    /\ a_pc = "al_loop"
    /\ attempt < AllegroMaxRetries /\ attempt < Len(Strategies)
    /\ \E jitter \in Jitters :
         waited' = IF attempt > 0 THEN Append(waited, wait_time(attempt, jitter)) ELSE waited
    /\ a_pc' = "al_body"
    /\ UNCHANGED <<attempt, exhausted>>
    /\ UNCHANGED backoff_frame

\* the loop body ends with `continue` (or in the except handler), or returns the page
BackoffBodyEnds ==
    /\ a_pc = "al_body"
    /\ \/ a_pc' = "al_loop" /\ attempt' = attempt + 1
       \/ a_pc' = "idle" /\ attempt' = attempt
    /\ UNCHANGED <<waited, exhausted>>
    /\ UNCHANGED backoff_frame

\* the loop is over: "All strategies exhausted"
BackoffExhausted ==
    /\ a_pc = "al_loop"
    /\ ~(attempt < AllegroMaxRetries /\ attempt < Len(Strategies))
    /\ a_pc' = "idle"
    /\ exhausted' = TRUE
    /\ UNCHANGED <<attempt, waited>>
    /\ UNCHANGED backoff_frame

InitBackoff ==
    /\ ManagerInit(ScrapeConfig(<<"Allegro">>, Expr_ddr5_i_ram, Some(100), Some(500)))
    /\ a_pc = "al_loop"
    /\ attempt = 0
    /\ fetch_attempt = 0
    /\ cookies_acquired = FALSE
    /\ use_mobile = FALSE
    /\ session = 1
    /\ last_successful_ua = None
    /\ drission_available = FALSE
    /\ requests = 0
    /\ requests_after_cancel = 0
    /\ exhausted = FALSE
    /\ raised_after_cancel = FALSE
    /\ waited = <<>>
    /\ script = None
    /\ NoCall
    /\ ScanStarted
    /\ NoHuman

NextBackoff ==
    \/ BackoffSleep
    \/ BackoffBodyEnds
    \/ BackoffExhausted

SpecBackoff == InitBackoff /\ [][NextBackoff]_vars

\* ========================================================================
\* HumanSimulator: the browser identity and pacing state behind the headers
\* of every request, and the scraper instances that hold a reference to it
\* ========================================================================

MaxScrapers == 2
MaxRequestCount == 6
MaxClock == 2

\* get_user_agent: random.randint(5, 15)
RotateAfterMin == 5
RotateAfterMax == 15

\* the n-th User-Agent string of a browser profile
UserAgent(browser, n) == [browser |-> browser, n |-> n]

BrowserProfile(name, n_user_agents, sec_ch_ua, sec_ch_ua_platform) ==
    [name |-> name,
     user_agents |-> { UserAgent(name, k) : k \in 1..n_user_agents },
     sec_ch_ua |-> sec_ch_ua,
     sec_ch_ua_platform |-> sec_ch_ua_platform]

\* HumanSimulator.BROWSER_PROFILES
BROWSER_PROFILES ==
    << BrowserProfile("Chrome Windows", 4, Some("Google Chrome"), Some("Windows")),
       BrowserProfile("Firefox Windows", 3, None, None),
       BrowserProfile("Edge Windows", 2, Some("Microsoft Edge"), Some("Windows")),
       BrowserProfile("Chrome Mac", 2, Some("Google Chrome"), Some("macOS")),
       BrowserProfile("Safari Mac", 2, None, None) >>

\* what fake_useragent's UserAgent().random can give: the string of any
\* browser, one of the profiles' or another
FallbackUserAgents ==
    { UserAgent(BROWSER_PROFILES[p].name, 1) : p \in DOMAIN BROWSER_PROFILES }
    \cup { UserAgent("Opera", 1) }

\* HumanSimulator.__init__ and rotate_identity: a random profile and one of
\* its User-Agents
Identities ==
    UNION { { [profile |-> BROWSER_PROFILES[p], ua |-> u] : u \in BROWSER_PROFILES[p].user_agents }
              : p \in DOMAIN BROWSER_PROFILES }

\* HumanSimulator.__init__: the objects it can construct
NewHumanSimulator ==
    { [current_profile |-> i.profile, current_ua |-> i.ua,
       request_count |-> 0, last_request_time |-> 0] : i \in Identities }

\* HumanSimulator.rotate_identity
rotate_identity(sim) ==
    { [sim EXCEPT !.current_profile = i.profile, !.current_ua = i.ua, !.request_count = 0] :
        i \in Identities }

\* HumanSimulator.get_user_agent: the simulator afterwards and the string returned
get_user_agent(sim) ==
    LET rotated == IF sim.request_count > RotateAfterMax THEN rotate_identity(sim)
                   ELSE IF sim.request_count > RotateAfterMin
                   THEN rotate_identity(sim) \cup {sim}
                   ELSE {sim}
    IN UNION { { [sim |-> s, ua |-> u] : u \in {s.current_ua} \cup FallbackUserAgents }
                 : s \in rotated }

\* HumanSimulator.get_headers: the simulator afterwards and the headers returned
get_headers(sim) ==
    { [sim |-> r.sim,
       headers |-> [user_agent |-> r.ua,
                    sec_ch_ua |-> r.sim.current_profile.sec_ch_ua,
                    sec_ch_ua_platform |-> r.sim.current_profile.sec_ch_ua_platform]] :
        r \in get_user_agent([sim EXCEPT !.request_count = sim.request_count + 1]) }

\* HumanSimulator.request_throttle: _last_request_time = time.time(); every
\* time at or after MaxClock is MaxClock
request_throttle(sim) ==
    { [sim EXCEPT !.last_request_time = t] :
        t \in Min(sim.last_request_time + 1, MaxClock)..MaxClock }

\* should_take_break: random.randint(20, 40)
BreakEveryMin == 20
BreakEveryMax == 40

\* HumanSimulator.should_take_break: the values it can return
should_take_break(sim) ==
    { sim.request_count > 0 /\ sim.request_count % r = 0 : r \in BreakEveryMin..BreakEveryMax }

\* HumanSimulator.take_break: sleeps, then rotates the identity
take_break(sim) == rotate_identity(sim)

\* variant of get_human_simulator: every caller gets a HumanSimulator of its own
get_human_simulator_PerCaller ==
    { [human_sim |-> Some(Len(sim_objs) + 1), sim_objs |-> Append(sim_objs, o)] :
        o \in NewHumanSimulator }

\* get_human_simulator(): the module global and the objects after the call;
\* the reference returned is the global's
get_human_simulator ==
    IF human_sim = None
    THEN { [human_sim |-> Some(Len(sim_objs) + 1), sim_objs |-> Append(sim_objs, o)] :
             o \in NewHumanSimulator }
    ELSE { [human_sim |-> human_sim, sim_objs |-> sim_objs] }

human_frame == <<run_vars, adapter_vars, app_vars, call_vars>>

\* scraper_cls(): BaseScraper.__init__ takes the simulator and puts the
\* headers of a first get_headers() call on its new session
NewScraper ==
    /\ Len(humans) < MaxScrapers
    /\ \E g \in get_human_simulator :
         LET ref == g.human_sim[1] IN
         /\ g.sim_objs[ref].request_count < MaxRequestCount
         /\ \E r \in get_headers(g.sim_objs[ref]) :
              /\ human_sim' = g.human_sim
              /\ sim_objs' = [g.sim_objs EXCEPT ![ref] = r.sim]
              /\ humans' = Append(humans, ref)
              /\ actor' = Len(humans) + 1
              /\ headers' = Some(r.headers)
    /\ UNCHANGED human_frame

\* scraper i builds the headers of a request: self._human.get_headers(...)
ScraperGetHeaders(i) ==
    /\ i \in DOMAIN humans
    /\ sim_objs[humans[i]].request_count < MaxRequestCount
    /\ \E r \in get_headers(sim_objs[humans[i]]) :
         /\ sim_objs' = [sim_objs EXCEPT ![humans[i]] = r.sim]
         /\ headers' = Some(r.headers)
    /\ actor' = i
    /\ UNCHANGED <<human_sim, humans>>
    /\ UNCHANGED human_frame

\* scraper i rotates: _create_fresh_session, the 403 branch of _fetch, take_break
ScraperRotateIdentity(i) ==
    /\ i \in DOMAIN humans
    /\ \E sim \in rotate_identity(sim_objs[humans[i]]) :
         sim_objs' = [sim_objs EXCEPT ![humans[i]] = sim]
    /\ actor' = i
    /\ UNCHANGED <<human_sim, humans, headers>>
    /\ UNCHANGED human_frame

\* scraper i paces a request: self._human.request_throttle() in _fetch
ScraperRequestThrottle(i) ==
    /\ i \in DOMAIN humans
    /\ \E sim \in request_throttle(sim_objs[humans[i]]) :
         sim_objs' = [sim_objs EXCEPT ![humans[i]] = sim]
    /\ actor' = i
    /\ UNCHANGED <<human_sim, humans, headers>>
    /\ UNCHANGED human_frame

InitHuman ==
    /\ ManagerInit(ScrapeConfig(<<"Allegro", "OLX">>, Expr_ddr5_i_ram, Some(100), Some(500)))
    /\ NoScraper(FALSE)
    /\ script = None
    /\ NoCall
    /\ ScanStarted
    /\ NoHuman

NextHuman ==
    \/ NewScraper
    \/ \E i \in 1..MaxScrapers : ScraperGetHeaders(i)
    \/ \E i \in 1..MaxScrapers : ScraperRotateIdentity(i)
    \/ \E i \in 1..MaxScrapers : ScraperRequestThrottle(i)

SpecHuman == InitHuman /\ [][NextHuman]_vars

\* ------------------------------------------------------------------------
\* BaseScraper._fetch seen from the HumanSimulator: one scraper instance
\* whose caller keeps fetching pages
\* ------------------------------------------------------------------------
pacing_frame == <<run_vars, app_vars, call_vars, human_sim, humans, actor, attempt,
                  cookies_acquired, use_mobile, session, last_successful_ua,
                  drission_available, requests, requests_after_cancel, exhausted,
                  raised_after_cancel, script, waited>>

\* self._human of the j-th scraper instance
HumanSimulatorOf(j) == sim_objs[humans[j]]

\* what the server or the network does with one request of _fetch
FetchOutcomes == {"ok", "429", "403", "error"}

\* _fetch is entered: self._human.request_throttle()
FetchThrottle ==
    /\ a_pc = "idle"
    /\ \E sim \in request_throttle(HumanSimulatorOf(1)) :
         sim_objs' = [sim_objs EXCEPT ![humans[1]] = sim]
    /\ a_pc' = "pf_check"
    /\ fetch_attempt' = 0
    /\ UNCHANGED headers
    /\ UNCHANGED pacing_frame

\* if self._human.should_take_break(): self._human.take_break()
FetchCheckBreak ==
    /\ a_pc = "pf_check"
    /\ \E b \in should_take_break(HumanSimulatorOf(1)) :
         \E sim \in (IF b THEN take_break(HumanSimulatorOf(1)) ELSE {HumanSimulatorOf(1)}) :
            sim_objs' = [sim_objs EXCEPT ![humans[1]] = sim]
    /\ a_pc' = "pf_headers"
    /\ UNCHANGED <<fetch_attempt, headers>>
    /\ UNCHANGED pacing_frame

\* the head of the retry loop and the headers of the attempt, or return None
\* after MAX_RETRIES attempts
FetchHeaders ==
    /\ a_pc = "pf_headers"
    /\ IF fetch_attempt >= BaseMaxRetries
       THEN /\ a_pc' = "idle"
            /\ UNCHANGED <<sim_objs, headers>>
       ELSE /\ \E r \in get_headers(HumanSimulatorOf(1)) :
                 /\ sim_objs' = [sim_objs EXCEPT ![humans[1]] = r.sim]
                 /\ headers' = Some(r.headers)
            /\ a_pc' = "pf_response"
    /\ UNCHANGED fetch_attempt
    /\ UNCHANGED pacing_frame

\* the response of the attempt: a page, 429, 403, or a RequestException
FetchResponse ==
    /\ a_pc = "pf_response"
    /\ \E outcome \in FetchOutcomes :
         LET sim == HumanSimulatorOf(1)
             after == CASE outcome = "ok" -> {sim}
                        [] outcome = "429" -> take_break(sim)
                        [] outcome = "403" -> rotate_identity(sim)
                        [] outcome = "error" ->
                             IF fetch_attempt < BaseMaxRetries - 1
                             THEN rotate_identity(sim) ELSE {sim}
         IN /\ \E s2 \in after : sim_objs' = [sim_objs EXCEPT ![humans[1]] = s2]
            /\ IF outcome = "ok"
               THEN a_pc' = "idle" /\ UNCHANGED fetch_attempt
               ELSE a_pc' = "pf_headers" /\ fetch_attempt' = fetch_attempt + 1
    /\ UNCHANGED headers
    /\ UNCHANGED pacing_frame

\* a scraper instance right after BaseScraper.__init__
InitPacing ==
    /\ ManagerInit(ScrapeConfig(<<"OLX">>, Expr_ddr5_i_ram, Some(100), Some(500)))
    /\ NoScraper(FALSE)
    /\ script = None
    /\ NoCall
    /\ ScanStarted
    /\ \E o \in NewHumanSimulator : \E r \in get_headers(o) :
         /\ human_sim = Some(1)
         /\ sim_objs = <<r.sim>>
         /\ humans = <<1>>
         /\ actor = 1
         /\ headers = Some(r.headers)

NextPacing ==
    \/ FetchThrottle
    \/ FetchCheckBreak
    \/ FetchHeaders
    \/ FetchResponse

\* the caller keeps calling _fetch and every call runs to its return
SpecPacing == InitPacing /\ [][NextPacing]_vars /\ WF_vars(NextPacing)

\* ========================================================================
\* The KeywordFilter of a ScraperManager and the calls of its methods
\* ========================================================================

\* Bounds of the explored filter texts and calls
MaxTokens == 3
MaxCalls == 2

\* filter texts built from words: every sequence of at most MaxTokens words,
\* joined by single spaces
ExprWords == { <<"a">>, <<"b">>, <<"i">>, <<"l","u","b">>, <<"(">>, <<")">> }

RECURSIVE JoinWords(_)
JoinWords(ws) ==
    IF ws = <<>> THEN <<>>
    ELSE IF Len(ws) = 1 THEN ws[1]
    ELSE ws[1] \o <<" ">> \o JoinWords(Tail(ws))

WordExpressions == { JoinWords(ws) : ws \in UNION { [1..n -> ExprWords] : n \in 1..MaxTokens } }

\* further filter texts
Expr_ddr5_lub_ddr4 == <<"d", "d", "r", "5", " ", "l", "u", "b", " ", "d", "d", "r", "4">>
Expr_ddr5_i_cl30_lub_cl40 == <<"d", "d", "r", "5", " ", "i", " ", "(", "c", "l", "3", "0", " ", "l", "u", "b", " ", "c", "l", "4", "0", ")">>
Expr_a_lub_b_i_c == <<"a", " ", "l", "u", "b", " ", "b", " ", "i", " ", "c">>
Expr_a_i_a_i_b == <<"a", " ", "i", " ", "a", " ", "i", " ", "b">>
Expr_laptop_gaming == <<"l", "a", "p", "t", "o", "p", ",", " ", "g", "a", "m", "i", "n", "g">>
Expr_laptop_gaming_spaces == <<"l", "a", "p", "t", "o", "p", " ", "g", "a", "m", "i", "n", "g">>
Expr_nested == <<"(", "a", " ", "l", "u", "b", " ", "b", ")", " ", "i", " ", "(", "b", " ", "l", "u", "b", " ", "(", "a", " ", "i", " ", "c", ")", ")">>
Expr_mixed_case == <<"A", " ", "A", "N", "D", " ", "a", " ", "O", "r", " ", "B">>
Expr_leftover == <<"a", " ", "b", " ", "i", " ", "c">>
Expr_unmatched == <<"a", " ", "i", " ", "b", " ", ")">>
Expr_dangling == <<"a", " ", "i", " ", "b", " ", "l", "u", "b">>
Expr_empty == <<>>
Expr_blank == <<" ", "\t">>
ExampleExpressions ==
    { Expr_ddr5_i_ram, Expr_unclosed, Expr_ddr5_lub_ddr4,
      Expr_ddr5_i_cl30_lub_cl40,
      Expr_a_lub_b_i_c,
      Expr_a_i_a_i_b,
      Expr_laptop_gaming,
      Expr_laptop_gaming_spaces,
      Expr_nested,
      Expr_mixed_case,
      Expr_leftover,
      Expr_unmatched,
      Expr_dangling,
      Expr_empty,
      Expr_blank }

FilterExpressions == WordExpressions \cup ExampleExpressions

\* listing titles the filter is applied to
Text_empty == <<>>
Text_A == <<"A">>
Text_b == <<"b">>
Text_a_b == <<"x", "a", " ", "b">>
Text_C_a == <<"C", " ", "a">>
Text_DDR5_CL40_kit == <<"D", "D", "R", "5", " ", "C", "L", "4", "0", " ", "k", "i", "t">>
Text_DDR5_CL16_kit == <<"D", "D", "R", "5", " ", "C", "L", "1", "6", " ", "k", "i", "t">>
Text_Gaming_Laptop == <<"G", "a", "m", "i", "n", "g", " ", "L", "a", "p", "t", "o", "p", " ", "1", "5">>
FilterTexts ==
    { Text_empty, Text_A, Text_b, Text_a_b, Text_C_a, Text_DDR5_CL40_kit, Text_DDR5_CL16_kit, Text_Gaming_Laptop }

\* ScraperManager(config): its filter is compiled from config.keyword_expression
InitFilter ==
    \E e \in FilterExpressions :
        /\ ManagerInit(ScrapeConfig(<<>>, e, None, None))
        /\ NoScraper(FALSE)
        /\ script = None
        /\ NoCall
        /\ ScanStarted
        /\ NoHuman

\* the caller sees the return value; the manager and its filter are not touched
Returned(op, text, result) ==
    /\ call' = MethodCall(op, text, result)
    /\ UNCHANGED <<run_vars, adapter_vars, app_vars, human_vars>>

\* KeywordFilter.is_valid()
CallIsValid ==
    /\ Returned("is_valid", <<>>, is_valid(keyword_filter))
    /\ UNCHANGED terms_log

\* KeywordFilter.get_error()
CallGetError ==
    /\ Returned("get_error", <<>>, keyword_filter.parse_error)
    /\ UNCHANGED terms_log

\* KeywordFilter.matches(text)
CallMatches ==
    /\ \E text \in FilterTexts : Returned("matches", text, matches(keyword_filter, text))
    /\ UNCHANGED terms_log

\* KeywordFilter.get_matched_keywords(text)
CallGetMatchedKeywords ==
    /\ \E text \in FilterTexts :
          Returned("get_matched_keywords", text, get_matched_keywords(keyword_filter, text))
    /\ UNCHANGED terms_log

\* KeywordFilter.get_all_keywords()
CallGetAllKeywords ==
    /\ Returned("get_all_keywords", <<>>, get_all_keywords(keyword_filter))
    /\ UNCHANGED terms_log

\* KeywordFilter.get_search_terms()
CallGetSearchTerms ==
    /\ Len(terms_log) < MaxCalls
    /\ Returned("get_search_terms", <<>>, get_search_terms(keyword_filter))
    /\ terms_log' = Append(terms_log, get_search_terms(keyword_filter))

NextFilter ==
    \/ CallIsValid
    \/ CallGetError
    \/ CallMatches
    \/ CallGetMatchedKeywords
    \/ CallGetAllKeywords
    \/ CallGetSearchTerms

SpecFilter == InitFilter /\ [][NextFilter]_vars

\* ------------------------------------------------------------------------
\* KeywordExpressionLexer(expression).tokenize() on arbitrary strings
\* ------------------------------------------------------------------------
MaxChars == 3

LexChars == {"a", "I", "&", "|", "+", " ", "\t", "(", ")"}

Lex_a_amp_b == <<"a", "&", "b">>
Lex_AND_Lub == <<"A", "N", "D", " ", "L", "u", "b">>
Lex_or_pipes == <<"o", "r", "(", "|", "|", ")", "&", "&">>
Lex_glued == <<"a", "+", "b", " ", "i", "(", "l", "u", "b", "x", ")">>

LexTexts ==
    UNION { [1..n -> LexChars] : n \in 0..MaxChars }
    \cup {Lex_a_amp_b, Lex_AND_Lub, Lex_or_pipes, Lex_glued}

InitLexer ==
    \E text \in LexTexts :
        /\ ManagerInit(ScrapeConfig(<<"Allegro">>, Expr_ddr5_i_ram, Some(100), Some(500)))
        /\ NoScraper(FALSE)
        /\ script = None
        /\ call = MethodCall("none", text, <<>>)
        /\ terms_log = <<>>
        /\ ScanStarted
        /\ NoHuman

\* KeywordExpressionLexer(text).tokenize()
CallTokenize ==
    /\ call.op = "none"
    /\ Returned("tokenize", call.text, tokenize(call.text))
    /\ UNCHANGED terms_log

NextLexer == CallTokenize

SpecLexer == InitLexer /\ [][NextLexer]_vars

\* ========================================================================
\* Properties of ScraperManager.run
\* ========================================================================

\* a queued result without the keywords the orchestrator attached
Strip(r) == [r EXCEPT !.matched_keywords = <<>>]
StripAll(rs) == [k \in 1..Len(rs) |-> Strip(rs[k])]

\* the raw results that have gone through _passes_filter so far
Processed ==
    IF pc \in {"item_check", "item_filter"}
    THEN SubSeq(raw_log, 1, Len(raw_log) - Len(raw_results) + ridx - 1)
    ELSE raw_log

\* title satisfies the compiled filter, price unknown or inside the bounds
ShouldAccept(r) ==
    /\ matches(keyword_filter, r.title)
    /\ \/ r.price = None
       \/ /\ (config.price_min = None \/ r.price[1] >= config.price_min[1])
          /\ (config.price_max = None \/ r.price[1] <= config.price_max[1])

\* C1: in a run that has not been cancelled, the queue holds exactly the
\* processed raw results whose title satisfies the filter and whose price is
\* unknown or within [price_min, price_max] (inclusive, absent bounds do not
\* constrain), and once the run is past a platform all its results are processed.
C1_AcceptedExactly ==
    ~cancel => StripAll(queue) = SelectSeq(Processed, ShouldAccept)

\* C1 witness: the 'ddr5 i ram', 100..500 example has finished with exactly the
\* first of the three listings on the queue
C1_Witness ==
    /\ pc = "finished" /\ ~cancel
    /\ config = ScrapeConfig(<<"Allegro">>, Expr_ddr5_i_ram, Some(100), Some(500))
    /\ StripAll(raw_log) = RawResults("Allegro", <<1, 2, 3>>)
    /\ StripAll(queue) = RawResults("Allegro", <<1>>)

\* C2: when a platform's search raises, its error is recorded, the run goes on
\* to the next platform, the queue and the earlier counts are left alone; and
\* a run that was not cancelled has invoked the search of every requested
\* platform that has an adapter, whatever failed before it.
C2_FailureIsolated ==
    /\ [][ (pc = "search" /\ pc' # "item_check" /\ pc' # "search") =>
              /\ pc' = "loop" /\ idx' = idx + 1
              /\ Platform \in DOMAIN platform_errors'
              /\ platform_errors'[Platform] # <<>>
              /\ \A p \in DOMAIN platform_errors : platform_errors'[p] = platform_errors[p]
              /\ queue' = queue
              /\ platform_results' = platform_results
              /\ total_found' = total_found ]_vars
    /\ [] ( (pc = "finished" /\ ~cancel) =>
              \A k \in 1..Len(config.platforms) :
                  config.platforms[k] \in SCRAPERS =>
                      \E j \in 1..Len(searched) : searched[j] = config.platforms[k] )

\* C2 witness: the first platform failed and the second one was still scanned
\* and delivered results
C2_Witness ==
    /\ pc = "finished"
    /\ Len(config.platforms) = 2
    /\ config.platforms[1] \in DOMAIN platform_errors
    /\ config.platforms[2] \in DOMAIN platform_results
    /\ platform_results[config.platforms[2]] > 0
    /\ Len(queue) > 0

\* C3: on_done is called at most once, a finished run has called it exactly
\* once, and after the call no result is put and no status is emitted.
C3_DoneOnceAndLast ==
    /\ [] (Len(done) <= 1)
    /\ [] (pc = "finished" <=> Len(done) = 1)
    /\ [][ Len(done) >= 1 => (queue' = queue /\ status' = status /\ done' = done) ]_vars

\* C3 witness: a cancelled run with a failed platform and queued results has
\* emitted its summary
C3_Witness ==
    /\ pc = "finished" /\ Len(done) = 1 /\ cancel
    /\ Len(queue) > 0
    /\ platform_errors # EmptyDict

RECURSIVE SumCounts(_)
SumCounts(parts) ==
    IF parts = <<>> THEN 0
    ELSE (IF Head(parts).kind = "count" THEN Head(parts).value ELSE 0) + SumCounts(Tail(parts))

RECURSIVE SumDict(_)
SumDict(d) ==
    IF DOMAIN d = {} THEN 0
    ELSE LET k == CHOOSE x \in DOMAIN d : TRUE
         IN d[k] + SumDict([x \in (DOMAIN d) \ {k} |-> d[x]])

\* C4: when the summary is emitted, the per-platform counts add up to the
\* total, and the total is the number of results put on the queue.
C4_CountsAddUp ==
    done # <<>> =>
        /\ SumDict(platform_results) = total_found
        /\ SumCounts(done[1].parts) = done[1].total
        /\ done[1].total = total_found
        /\ total_found = Len(queue)

\* C4 witness: a run cancelled inside a platform's result loop, after a put,
\* with a failed platform before it
C4_Witness ==
    /\ done # <<>> /\ cancel
    /\ platform_errors # EmptyDict
    /\ Len(queue) > 0
    /\ Len(raw_log) > Len(queue) + 1

InExactlyOne(p) == (p \in DOMAIN platform_results) # (p \in DOMAIN platform_errors)

PlatformPos(p) == CHOOSE k \in 1..Len(config.platforms) : config.platforms[k] = p
IsLogged(q, n) == raw_log[n].portal = q.portal /\ raw_log[n].url = q.url
LogPos(q) == CHOOSE n \in 1..Len(raw_log) : IsLogged(q, n)

\* C6: every queued result is one of the returned raw results; the queue is
\* in the order in which the adapters returned them, and the results of an
\* earlier requested platform all come before those of a later one.
C6_QueueOrder ==
    /\ \A i \in 1..Len(queue) : \E n \in 1..Len(raw_log) : IsLogged(queue[i], n)
    /\ \A i, j \in 1..Len(queue) :
          i < j => /\ LogPos(queue[i]) < LogPos(queue[j])
                   /\ PlatformPos(queue[i].portal) <= PlatformPos(queue[j].portal)

\* C6 witness: two results of the first platform followed by one of the second
C6_Witness ==
    /\ Len(queue) >= 3
    /\ queue[1].portal = queue[2].portal
    /\ queue[2].portal # queue[3].portal

\* C8: if the token was set when run() began, no search is invoked, nothing is
\* put on the queue and the emitted total is 0.
C8_CancelledAtStart ==
    cancel_at_start =>
        /\ searched = <<>>
        /\ queue = <<>>
        /\ done # <<>> => done[1].total = 0

\* C8 witness: such a run, asked for a platform that has an adapter, finished
C8_Witness ==
    /\ cancel_at_start /\ pc = "finished"
    /\ \E k \in 1..Len(config.platforms) : config.platforms[k] \in SCRAPERS

C19_InvalidFilterAcceptsNothing ==
    /\ [] ( ~is_valid(keyword_filter) =>
               /\ queue = <<>>
               /\ total_found = 0
               /\ \A p \in DOMAIN platform_results : platform_results[p] = 0
               /\ done # <<>> => done[1].total = 0 )
    /\ [][ (~is_valid(keyword_filter) /\ pc = "item_filter" /\ pc' # pc) =>
              /\ pc' = "item_check" /\ ridx' = ridx + 1
              /\ raw_results' = raw_results
              /\ platform_errors' = platform_errors ]_vars

\* C19 witness: a run with the filter text '(ddr5' has finished uncancelled;
\* the adapters returned three or more listings, none was accepted
C19_Witness ==
    /\ config.keyword_expression = Expr_unclosed
    /\ ~is_valid(keyword_filter)
    /\ pc = "finished" /\ ~cancel
    /\ Len(raw_log) >= 3
    /\ queue = <<>> /\ done[1].total = 0
    /\ platform_errors = EmptyDict

IsStart(ev) == ev.kind = "scanning"
IsCompletion(ev) == ev.kind \in {"matches", "error"}

\* C20: the status events come in pairs, a "Scanning" event of a source
\* followed by the completion event (match count or error) of the same
\* source; a source has at most one pair; the start event is there before the
\* source's search is invoked, the completion event comes only after the
\* search returned or failed, and it is there before the next source is
\* looked at and before on_done.
C20_StatusPairs ==
    /\ [] ( /\ \A k \in 1..Len(status) :
                  IF k % 2 = 1 THEN IsStart(status[k])
                  ELSE /\ IsCompletion(status[k])
                       /\ status[k].platform = status[k - 1].platform
            /\ \A k, m \in 1..Len(status) :
                  (k # m /\ status[k].platform = status[m].platform) =>
                      (m = k + 1 \/ k = m + 1)
            /\ \A k \in 1..Len(searched) :
                  2 * k - 1 <= Len(status) /\ status[2 * k - 1].platform = searched[k]
            /\ pc = "search" =>
                  /\ Len(status) = 2 * Len(searched) + 1
                  /\ status[Len(status)].platform = Platform
            /\ pc \in {"item_check", "item_filter", "source_done"} =>
                  /\ Len(status) = 2 * Len(searched) - 1
                  /\ status[Len(status)].platform = Platform
            /\ pc \in {"run", "loop", "emit_done", "finished"} =>
                  Len(status) = 2 * Len(searched)
            /\ done # <<>> => Len(status) = 2 * Len(searched) )
    /\ [][ (status' # status /\ IsCompletion(status'[Len(status')])) =>
              /\ Len(searched') * 2 = Len(status')
              /\ searched'[Len(searched')] = status'[Len(status')].platform
              /\ pc' = "loop" /\ idx' = idx + 1 ]_vars

\* C20 witness: a finished run over two sources, the first failed, the second
\* was cancelled inside its result loop: two pairs of events, then on_done
C20_Witness ==
    /\ pc = "finished" /\ cancel /\ Len(done) = 1
    /\ Len(status) = 4
    /\ IsStart(status[1]) /\ status[2].kind = "error"
    /\ IsStart(status[3]) /\ status[4].kind = "matches"
    /\ status[1].platform = config.platforms[1]
    /\ status[3].platform = config.platforms[2]
    /\ Len(raw_log) > Len(queue)

\* C31 as stated: while the token is set nothing is put on the queue
C31_Original == [][cancel => queue' = queue]_vars

\* C31: a put while the token is set is the put of the one listing whose token
\* check had passed before the set; a token check made after the set admits no
\* listing, and the token stays set, so at most one listing follows the set
C31_Amended ==
    /\ [][(cancel /\ queue' # queue) =>
              /\ pc = "item_filter"
              /\ pc' = "item_check"
              /\ Len(queue') = Len(queue) + 1]_vars
    /\ [][(cancel /\ pc # "item_filter") => pc' # "item_filter"]_vars
    /\ [][cancel => cancel']_vars

\* the token is set between the check of a listing and its put, and the
\* listing passes the filter
C31_Witness ==
    /\ cancel
    /\ ~cancel_at_start
    /\ pc = "item_filter"
    /\ PassesFilter(keyword_filter, config, raw_results[ridx])

\* a queued listing's title, with the case of its letters removed
QueuedTitle(k) == Lower(queue[k].title)

\* C34: every queued listing has a non-empty matched_keywords list whose
\* elements are keywords of the filter that occur in its title, compared in
\* lower case, and a listing once queued is never changed
C34_MatchedKeywordsAttached ==
    /\ [](LET all == get_all_keywords(keyword_filter)
              keywords == { all[i] : i \in DOMAIN all }
          IN \A k \in DOMAIN queue :
               LET matched == queue[k].matched_keywords IN
               /\ matched # <<>>
               /\ \A j \in DOMAIN matched :
                    /\ matched[j] \in keywords
                    /\ Contains(QueuedTitle(k), Lower(matched[j])))
    /\ [][\A k \in DOMAIN queue : k \in DOMAIN queue' /\ queue'[k] = queue[k]]_vars

\* a listing with two matched keywords is on the queue
C34_Witness ==
    /\ queue # <<>>
    /\ Len(queue[1].matched_keywords) = 2

\* ========================================================================
\* Properties of MarketMapApp and its worker
\* ========================================================================

\* C21: the token of a run is never cleared while its worker is alive, and a
\* worker whose token has been set does not go on from the top of the platform
\* loop to scan a source, nor from the top of the result loop to push a listing
C21_Original ==
    /\ [](token_was_set /\ pc # "finished" => cancel)
    /\ [][token_was_set => /\ (pc = "loop" => pc' # "search")
                           /\ (pc = "item_check" => pc' # "item_filter")]_vars

\* ========================================================================
\* Properties of the HumanSimulator
\* ========================================================================

\* the HumanSimulator that scraper instance j uses
HumanOf(j) == sim_objs[humans[j]]

Coherent(h) ==
    \E p \in DOMAIN BROWSER_PROFILES :
        /\ h.user_agent \in BROWSER_PROFILES[p].user_agents
        /\ h.sec_ch_ua = BROWSER_PROFILES[p].sec_ch_ua
        /\ h.sec_ch_ua_platform = BROWSER_PROFILES[p].sec_ch_ua_platform

\* C30 as stated: the headers returned by get_headers carry a User-Agent of the
\* same browser profile as their Sec-CH-UA header set
C30_Original == headers # None => Coherent(headers[1])

\* ========================================================================
\* Properties of the scrapers' search
\* ========================================================================

\* C7 as stated: while the token is set no scraper initiates a network
\* request, and no search raises.
C7_Original ==
    requests_after_cancel = 0 /\ ~raised_after_cancel

\* the platform of the search that was started last
LastSearched == searched[Len(searched)]

\* C10 as stated: a search that ran out of retries does not return to run();
\* it raises, and run() records the platform under its errors.
C10_Original ==
    (exhausted /\ a_pc = "idle") =>
        /\ pc \notin {"item_check", "item_filter", "source_done"}
        /\ LastSearched \in DOMAIN platform_errors
        /\ LastSearched \notin DOMAIN platform_results

\* the number of strategies _fetch_with_session has entered
StrategiesUsed == IF exhausted THEN attempt ELSE attempt + 1

ScriptKinds == [k \in 1..Len(script[1]) |-> script[1][k].kind]

\* C11: against a server scripted with k-1 blocked attempts (403, 429,
\* challenge marker, warm-up failure, network error) followed by a success,
\* k <= 5, a _fetch_with_session that has ended has returned, not raised, it
\* has used exactly k strategies, and search() hands on the page of the k-th
\* answer; whatever the script, never more than 5 strategies are entered.
C11_ScriptedFallback ==
    (script # None /\ requests > 0) =>
        /\ StrategiesUsed <= AllegroMaxRetries
        /\ StrategiesUsed <= Len(script[1])
        /\ (a_pc = "idle" /\ ScriptKinds[Len(script[1])] = "success") =>
              /\ ~exhausted
              /\ StrategiesUsed = Len(script[1])
              /\ "Allegro" \notin DOMAIN platform_errors
              /\ StripAll(raw_log) = RawResults("Allegro", script[1][Len(script[1])].payload)

\* C11 witness: the script {403, 429, challenge marker, success} has been
\* played to its end, the three listings of the fourth answer were returned
\* by the fourth strategy (mobile, same session) and the run has finished
C11_Witness ==
    /\ script # None
    /\ ScriptKinds = <<"403", "429", "challenge", "success">>
    /\ pc = "finished" /\ a_pc = "idle"
    /\ attempt = 3 /\ use_mobile /\ ~exhausted
    /\ StripAll(raw_log) = RawResults("Allegro", <<1, 2, 3>>)

\* ========================================================================
\* Properties of AllegroScraper._fetch_with_session
\* ========================================================================

\* the answer the scripted server gives to the current strategy attempt
ScriptedNow == script[1][attempt + 1]

\* C23 as stated: a listing response with HTTP 200, no challenge marker and
\* zero listing items is not returned: the session flag is cleared and the
\* next strategy is tried
C23_Original ==
    [][(a_pc = "al_fetch" /\ ScriptedNow = ScriptEntry("success", <<>>)) =>
           /\ a_pc' # "idle"
           /\ ~cookies_acquired'
           /\ attempt' = attempt + 1]_vars

\* C24 as stated: a listing request is initiated only by a step that takes a
\* successful warm-up response of the same strategy attempt, and when the
\* warm-up fails the session-established flag is false
C24_Original ==
    /\ [][(a_pc' = "al_fetch" /\ <<a_pc, attempt>>' # <<a_pc, attempt>>) =>
              /\ a_pc \in {"al_warm", "al_category"}
              /\ attempt' = attempt]_vars
    /\ [][(a_pc \in {"al_warm", "al_category"} /\ attempt' # attempt) =>
              ~cookies_acquired]_vars

\* the outcomes of a listing request that _fetch_with_session treats as blocked
ListingBlockedKinds == {"429", "403", "challenge", "neterr"}

\* C25: a blocked listing request raises nothing while a strategy is left,
\* leaves the session-established flag false and moves to the next strategy,
\* which starts with its warm-up; after the last strategy the fetch raises
C25_BlockedAbsorbed ==
    [][(a_pc = "al_fetch" /\ ScriptedNow.kind \in ListingBlockedKinds) =>
           /\ attempt' = attempt + 1
           /\ ~cookies_acquired'
           /\ IF attempt + 1 < AllegroMaxRetries
              THEN /\ a_pc' = "al_warm"
                   /\ pc' = "search"
                   /\ platform_errors' = platform_errors
                   /\ ~exhausted'
              ELSE /\ a_pc' = "idle"
                   /\ exhausted'
                   /\ platform_errors' = DictSet(platform_errors, "Allegro", Msg_AllegroAntiBot)]_vars

\* the listing requests of the first four strategies were blocked in the four
\* ways and the fifth strategy is warming up
C25_Witness ==
    /\ a_pc = "al_warm"
    /\ attempt = 4
    /\ [k \in 1..4 |-> script[1][k].kind] = <<"429", "403", "challenge", "neterr">>

\* C26 as stated: right after a fresh-session strategy was selected the
\* session-established flag is false and the last successful User-Agent is unset
C26_Original ==
    (a_pc = "al_warm" /\ Strategies[attempt + 1].fresh_session) =>
        /\ ~cookies_acquired
        /\ last_successful_ua = None

\* the list of strategies as the claim gives it
ClaimedStrategies ==
    << [mobile |-> FALSE, fresh_session |-> FALSE],
       [mobile |-> FALSE, fresh_session |-> TRUE],
       [mobile |-> TRUE,  fresh_session |-> TRUE],
       [mobile |-> TRUE,  fresh_session |-> FALSE],
       [mobile |-> FALSE, fresh_session |-> TRUE] >>

\* the sessions a scraper has had when the first k claimed strategies were entered
SessionsAfter(k) == 1 + Cardinality({ j \in 1..k : ClaimedStrategies[j].fresh_session })

InLadder == a_pc \in {"al_warm", "al_category", "al_fetch"}

\* C27: while a request of strategy attempt k is in flight the scraper is in
\* the mode of the k-th claimed strategy and has opened a fresh session exactly
\* for the fresh-session entries up to k; the attempt number only moves one up
C27_StrategyOrder ==
    /\ [](InLadder => /\ attempt + 1 \in 1..Len(ClaimedStrategies)
                      /\ use_mobile = ClaimedStrategies[attempt + 1].mobile
                      /\ session = SessionsAfter(attempt + 1))
    /\ [][InLadder => attempt' \in {attempt, attempt + 1}]_vars
    /\ [][(~InLadder /\ InLadder') => attempt' = 0]_vars

\* the listing request of the fifth strategy is in flight
C27_Witness ==
    /\ a_pc = "al_fetch"
    /\ attempt = 4
    /\ ~use_mobile
    /\ session = 4

\* the delay of d ticks lies between lo and hi seconds
Between(d, lo, hi) == lo * TicksPerSecond <= d /\ d <= hi * TicksPerSecond

\* C28: the first strategy attempt follows no sleep; the sleep before attempt
\* k + 1 is 2^k seconds plus at most 2 seconds and at most 30 seconds, and the
\* sleeps never get shorter
C28_Backoff ==
    /\ a_pc = "al_body" => Len(waited) = attempt
    /\ \A k \in DOMAIN waited : Between(waited[k], 2 ^ k, 2 ^ k + 2) /\ Between(waited[k], 0, 30)
    /\ \A k \in DOMAIN waited : k > 1 => waited[k - 1] <= waited[k]

\* the fifth attempt runs after four sleeps; the first had the longest jitter
\* and the second none, which makes them equal
C28_Witness ==
    /\ a_pc = "al_body"
    /\ attempt = 4
    /\ Len(waited) = 4
    /\ waited[1] = waited[2]

\* the most requests one search() can initiate: per Allegro strategy a landing
\* page, a category page and a listing request, then one browser fetch; for
\* OLX a home page and 1 + 3 calls of _fetch with 3 requests each; for Vinted a
\* home page and one call of _fetch
RequestBudget(platform) ==
    IF platform = "Allegro" THEN 5 * 3 + 1
    ELSE IF platform = "OLX" THEN 1 + (1 + 3) * 3
    ELSE 1 + 3

\* C29: _fetch_with_session is in at most its fifth strategy and sends at most
\* one listing request per strategy; _fetch is in at most its third request;
\* OLXScraper.search is in at most its fourth call of _fetch; every step of a
\* search ends it or initiates a request, and the requests of a search stay
\* within a fixed budget, so every search ends
C29_LaddersTerminate ==
    /\ [](InLadder => attempt < 5)
    /\ [][(a_pc = "al_fetch" /\ adapter_vars' # adapter_vars) =>
              a_pc' # "al_fetch" \/ attempt' = attempt + 1]_vars
    /\ [](a_pc = "base_fetch" => fetch_attempt < 3 /\ attempt < 1 + 3)
    /\ [][(a_pc = "base_fetch" /\ a_pc' = "base_fetch" /\ adapter_vars' # adapter_vars) =>
              \/ attempt' = attempt /\ fetch_attempt' = fetch_attempt + 1
              \/ attempt' = attempt + 1 /\ fetch_attempt' = 0]_vars
    /\ [](searched # <<>> => requests <= RequestBudget(LastSearched))
    /\ [][(a_pc # "idle" /\ adapter_vars' # adapter_vars) =>
              a_pc' = "idle" \/ requests' > requests]_vars

\* OLXScraper.search has used every request of its ladder and returned
C29_Witness ==
    /\ a_pc = "idle"
    /\ exhausted
    /\ LastSearched = "OLX"
    /\ attempt = 1 + 3
    /\ requests = RequestBudget("OLX")

\* ========================================================================
\* Properties of the KeywordFilter
\* ========================================================================

\* the token types of the filter text, without the closing EOF
TokenTypesOf(expr) ==
    LET toks == tokenize(expr) IN [k \in 1..(Len(toks) - 1) |-> toks[k].type]

\* the keyword tokens of the filter text, left to right
KeywordsOf(expr) == TokenValues(SelectSeq(tokenize(expr), IsKeywordToken))

HasOperatorToken(expr) ==
    \E k \in 1..Len(TokenTypesOf(expr)) :
        TokenTypesOf(expr)[k] \in {"AND", "OR", "LPAREN", "RPAREN"}

\* derivability of ts[i..j] from the grammar
\*   expression -> term (OR term)*    term -> factor (AND factor)*
\*   factor -> KEYWORD | LPAREN expression RPAREN
RECURSIVE IsExpression(_, _, _)
RECURSIVE IsTerm(_, _, _)
RECURSIVE IsFactor(_, _, _)

IsFactor(ts, i, j) ==
    \/ i = j /\ ts[i] = "KEYWORD"
    \/ j >= i + 2 /\ ts[i] = "LPAREN" /\ ts[j] = "RPAREN" /\ IsExpression(ts, i + 1, j - 1)

IsTerm(ts, i, j) ==
    \/ IsFactor(ts, i, j)
    \/ \E k \in (i + 1)..(j - 1) :
          ts[k] = "AND" /\ IsTerm(ts, i, k - 1) /\ IsFactor(ts, k + 1, j)

IsExpression(ts, i, j) ==
    \/ IsTerm(ts, i, j)
    \/ \E k \in (i + 1)..(j - 1) :
          ts[k] = "OR" /\ IsExpression(ts, i, k - 1) /\ IsTerm(ts, k + 1, j)

\* the whole token sequence up to EOF is an `expression`
Derivable(expr) ==
    LET ts == TokenTypesOf(expr) IN Len(ts) >= 1 /\ IsExpression(ts, 1, Len(ts))

\* C12 as stated: a filter text with an AND, OR or parenthesis token compiles
\* only if its whole token sequence is derivable from `expression`; otherwise
\* the filter is invalid and carries an error message.
C12_Original ==
    HasOperatorToken(config.keyword_expression) =>
        /\ is_valid(keyword_filter) => Derivable(config.keyword_expression)
        /\ ~Derivable(config.keyword_expression) =>
              /\ ~is_valid(keyword_filter)
              /\ keyword_filter.parse_error # None
              /\ keyword_filter.parse_error[1] # <<>>

\* the maximal runs of characters of s that are neither a comma nor a space
RECURSIVE SplitFrom(_, _, _, _)
SplitFrom(s, k, word, acc) ==
    IF k > Len(s) THEN (IF word = <<>> THEN acc ELSE Append(acc, word))
    ELSE IF s[k] = "," \/ IsSpace(s[k])
         THEN SplitFrom(s, k + 1, <<>>, IF word = <<>> THEN acc ELSE Append(acc, word))
         ELSE SplitFrom(s, k + 1, Append(word, s[k]), acc)

CommaSpaceList(s) == SplitFrom(s, 1, <<>>, <<>>)

Word_laptop == <<"l", "a", "p", "t", "o", "p">>
Word_gaming == <<"g", "a", "m", "i", "n", "g">>

\* C13 as stated: a filter text without AND, OR and parenthesis tokens is a
\* comma-or-space separated keyword list: its keywords are the runs between
\* commas and spaces, 'laptop, gaming' has the search terms laptop and gaming,
\* and matches(text) is true exactly when each of them is a case-insensitive
\* substring of the text.
C13_Original ==
    LET e == config.keyword_expression
        listed == CommaSpaceList(e)
    IN (~HasOperatorToken(e) /\ listed # <<>>) =>
          /\ get_all_keywords(keyword_filter) = listed
          /\ e = Expr_laptop_gaming =>
                get_search_terms(keyword_filter) = <<Word_laptop, Word_gaming>>
          /\ call.op = "matches" =>
                (call.result <=> \A k \in 1..Len(listed) :
                                    Contains(Lower(call.text), Lower(listed[k])))

\* nesting depth of position k inside toks[i..j]
RECURSIVE Depth(_, _, _)
Depth(toks, i, k) ==
    IF k <= i THEN 0
    ELSE Depth(toks, i, k - 1)
         + (IF toks[k - 1].type = "LPAREN" THEN 1
            ELSE IF toks[k - 1].type = "RPAREN" THEN 0 - 1 ELSE 0)

\* the last operator of the given type in toks[i..j] outside parentheses, or 0
LastTop(toks, i, j, type) ==
    LET ks == { k \in i..j : toks[k].type = type /\ Depth(toks, i, k) = 0 }
    IN IF ks = {} THEN 0 ELSE CHOOSE k \in ks : \A m \in ks : m <= k

\* the boolean value of the expression toks[i..j] on text: OR binds loosest,
\* then AND, operators group to the left, parentheses group first
RECURSIVE ValueOf(_, _, _, _)
ValueOf(toks, i, j, text) ==
    LET o == LastTop(toks, i, j, "OR")
        a == LastTop(toks, i, j, "AND")
    IN IF o # 0 THEN ValueOf(toks, i, o - 1, text) \/ ValueOf(toks, o + 1, j, text)
       ELSE IF a # 0 THEN ValueOf(toks, i, a - 1, text) /\ ValueOf(toks, a + 1, j, text)
       ELSE IF toks[i].type = "LPAREN" THEN ValueOf(toks, i + 1, j - 1, text)
       ELSE Contains(Lower(text), Lower(toks[i].value))

\* the tree of the expression toks[i..j] under the same reading
RECURSIVE TreeOf(_, _, _)
TreeOf(toks, i, j) ==
    LET o == LastTop(toks, i, j, "OR")
        a == LastTop(toks, i, j, "AND")
    IN IF o # 0 THEN OrNode(TreeOf(toks, i, o - 1), TreeOf(toks, o + 1, j))
       ELSE IF a # 0 THEN AndNode(TreeOf(toks, i, a - 1), TreeOf(toks, a + 1, j))
       ELSE IF toks[i].type = "LPAREN" THEN TreeOf(toks, i + 1, j - 1)
       ELSE KeywordNode(toks[i].value)

\* C14: for a filter text that is an expression of the grammar, the filter is
\* valid, its tree groups AND before OR and both to the left unless
\* parentheses say otherwise, and matches(text) is the boolean value of the
\* expression with each keyword true iff it is a case-insensitive substring of
\* the text; 'ddr5 i (cl30 lub cl40)' is true on 'DDR5 CL40 kit' and false on
\* 'DDR5 CL16 kit'.
C14_EvaluateIsBooleanValue ==
    LET e == config.keyword_expression
        toks == tokenize(e)
        n == Len(toks) - 1
    IN Derivable(e) =>
          /\ is_valid(keyword_filter)
          /\ keyword_filter.root[1] = TreeOf(toks, 1, n)
          /\ call.op = "matches" =>
                /\ call.result <=> ValueOf(toks, 1, n, call.text)
                /\ (e = Expr_ddr5_i_cl30_lub_cl40 /\ call.text = Text_DDR5_CL40_kit)
                      => call.result
                /\ (e = Expr_ddr5_i_cl30_lub_cl40 /\ call.text = Text_DDR5_CL16_kit)
                      => ~call.result

\* C14 witness: 'a lub b i c' was evaluated on a text that holds only a, and
\* is true: read as (a lub b) i c it would be false
C14_Witness ==
    /\ config.keyword_expression = Expr_a_lub_b_i_c
    /\ call.op = "matches" /\ call.text = Text_A /\ call.result
    /\ keyword_filter.root[1] =
          OrNode(KeywordNode(<<"a">>), AndNode(KeywordNode(<<"b">>), KeywordNode(<<"c">>)))

\* the keywords of kws, in order, that are case-insensitive substrings of text
RECURSIVE MatchingIn(_, _)
MatchingIn(kws, text) ==
    IF kws = <<>> THEN <<>>
    ELSE (IF Contains(Lower(text), Lower(Head(kws))) THEN <<Head(kws)>> ELSE <<>>)
         \o MatchingIn(Tail(kws), text)

\* C15: for a valid filter, get_matched_keywords(text) is the sequence of the
\* tree's leaf keywords, left to right with duplicates, that are
\* case-insensitive substrings of the text, whatever the operators above them
\* and whatever the value of the whole expression; for a filter text that is
\* an expression or a plain keyword list the leaves are its keyword tokens.
C15_MatchedKeywords ==
    LET e == config.keyword_expression IN
    is_valid(keyword_filter) =>
        /\ (Derivable(e) \/ ~HasOperatorToken(e)) =>
              get_all_keywords(keyword_filter) = KeywordsOf(e)
        /\ call.op = "get_matched_keywords" =>
              call.result = MatchingIn(get_all_keywords(keyword_filter), call.text)

\* C15 witness: 'a i a i b' on a text that holds a but not b: the expression
\* is false, and a is reported twice
C15_Witness ==
    /\ config.keyword_expression = Expr_a_i_a_i_b
    /\ call.op = "get_matched_keywords" /\ call.text = Text_A
    /\ call.result = << <<"a">>, <<"a">> >>
    /\ ~matches(keyword_filter, Text_A)

FirstIndex(x, xs) == CHOOSE k \in 1..Len(xs) : xs[k] = x /\ \A m \in 1..(k - 1) : xs[m] # x

\* terms holds every element of leaves exactly once, in order of first occurrence
OnceInFirstOrder(terms, leaves) ==
    /\ \A i, j \in 1..Len(terms) : i # j => terms[i] # terms[j]
    /\ { terms[i] : i \in 1..Len(terms) } = { leaves[k] : k \in 1..Len(leaves) }
    /\ \A i, j \in 1..Len(terms) :
          i < j => FirstIndex(terms[i], leaves) < FirstIndex(terms[j], leaves)

\* C16: every get_search_terms() call returns each keyword of the tree exactly
\* once, in order of first occurrence ('a i a i b' gives a, b); repeated calls
\* return the same list, and no call changes the filter.
C16_SearchTerms ==
    /\ [] ( \A k \in 1..Len(terms_log) :
               /\ OnceInFirstOrder(terms_log[k], get_all_keywords(keyword_filter))
               /\ terms_log[k] = terms_log[1]
               /\ config.keyword_expression = Expr_a_i_a_i_b =>
                     terms_log[k] = << <<"a">>, <<"b">> >> )
    /\ [][ keyword_filter' = keyword_filter /\ config' = config ]_vars

\* C16 witness: get_search_terms() was called twice on the filter 'a i a i b'
C16_Witness ==
    /\ config.keyword_expression = Expr_a_i_a_i_b
    /\ terms_log = << << <<"a">>, <<"b">> >>, << <<"a">>, <<"b">> >> >>
    /\ call.op = "get_search_terms"

\* C17: a compiled filter has either a root or a parse error, never both and
\* never neither; is_valid() is true exactly when the root is set; an empty or
\* whitespace-only text gives an invalid filter with a non-empty error.
C17_RootXorError ==
    /\ (keyword_filter.root # None) # (keyword_filter.parse_error # None)
    /\ call.op = "is_valid" => (call.result <=> keyword_filter.root # None)
    /\ IsBlank(config.keyword_expression) =>
          /\ keyword_filter.root = None
          /\ keyword_filter.parse_error # None
          /\ keyword_filter.parse_error[1] # <<>>
          /\ call.op = "is_valid" => ~call.result
          /\ call.op = "get_error" => (call.result # None /\ call.result[1] # <<>>)

\* C17 witness: is_valid() was called on the filter of a whitespace-only text
C17_Witness ==
    /\ config.keyword_expression = Expr_blank
    /\ call.op = "is_valid" /\ ~call.result
    /\ keyword_filter.parse_error = Some(<<"Empty expression">>)

\* C18: a filter whose text failed to compile exists and answers every call:
\* is_valid() is false, matches(text) is false for every text, and
\* get_search_terms(), get_all_keywords() and get_matched_keywords(text)
\* return the empty list.
C18_InvalidFilterUsable ==
    keyword_filter.parse_error # None =>
        /\ keyword_filter.root = None
        /\ call.op = "is_valid" => ~call.result
        /\ call.op = "matches" => ~call.result
        /\ call.op \in {"get_search_terms", "get_all_keywords", "get_matched_keywords"} =>
              call.result = <<>>
        /\ \A k \in 1..Len(terms_log) : terms_log[k] = <<>>

\* C18 witness: matches() was called on the filter of '(ddr5' with a text
\* that holds ddr5, and returned False
C18_Witness ==
    /\ config.keyword_expression = Expr_unclosed
    /\ keyword_filter.parse_error = Some(<<"Expected", "RPAREN", "EOF">>)
    /\ call.op = "matches" /\ call.text = Text_DDR5_CL40_kit /\ ~call.result

\* a character that belongs to a word: neither whitespace nor a parenthesis
IsWordChar(ch) == ch \notin {" ", "\t", "\n", "(", ")"}

\* the pieces of a text that are tokens: each parenthesis, and each maximal
\* run of word characters, as <<first, last>> positions
Segments(text) ==
    { g \in (1..Len(text)) \X (1..Len(text)) :
        \/ g[1] = g[2] /\ text[g[1]] \in {"(", ")"}
        \/ /\ g[1] <= g[2]
           /\ \A k \in g[1]..g[2] : IsWordChar(text[k])
           /\ g[1] = 1 \/ ~IsWordChar(text[g[1] - 1])
           /\ g[2] = Len(text) \/ ~IsWordChar(text[g[2] + 1]) }

\* the k-th piece from the left
NthSegment(text, k) ==
    CHOOSE g \in Segments(text) : Cardinality({ h \in Segments(text) : h[1] < g[1] }) = k - 1

\* the type the claim gives to a piece
ClaimedType(piece) ==
    IF piece = <<"(">> THEN "LPAREN"
    ELSE IF piece = <<")">> THEN "RPAREN"
    ELSE IF Lower(piece) \in { <<"i">>, <<"a","n","d">>, <<"&">>, <<"&","&">>, <<"+">> } THEN "AND"
    ELSE IF Lower(piece) \in { <<"l","u","b">>, <<"o","r">>, <<"|">>, <<"|","|">> } THEN "OR"
    ELSE "KEYWORD"

\* C33: tokenize returns one token per parenthesis and per maximal run of word
\* characters, left to right, with the run as its value and the type the claim
\* gives, followed by exactly one EOF token
C33_Tokenize ==
    call.op = "tokenize" =>
        LET text == call.text
            tokens == call.result
            n == Cardinality(Segments(text))
        IN /\ Len(tokens) = n + 1
           /\ tokens[n + 1] = Token("EOF", <<>>)
           /\ \A k \in 1..n :
                LET g == NthSegment(text, k)
                    piece == SubSeq(text, g[1], g[2])
                IN tokens[k] = Token(ClaimedType(piece), piece)

\* 'a&b' was tokenized to one keyword, and 'AND Lub' to two operators
C33_Witness ==
    /\ call.op = "tokenize"
    /\ \/ call.text = Lex_a_amp_b /\ call.result[1] = Token("KEYWORD", Lex_a_amp_b)
       \/ call.text = Lex_AND_Lub /\ call.result[1].type = "AND" /\ call.result[2].type = "OR"

\* the counter of header generations never passes the forced rotation of
\* get_user_agent, so no call of should_take_break() can return True
RequestCountBounded ==
    /\ HumanSimulatorOf(1).request_count <= RotateAfterMax
    /\ TRUE \notin should_take_break(HumanSimulatorOf(1))

\* C32 as stated: a caller that keeps fetching eventually reaches a call of
\* should_take_break() that can return True
C32_Original == <>(a_pc = "pf_check" /\ TRUE \in should_take_break(HumanSimulatorOf(1)))

\* C36 as stated: once a second scan has been started, the scanning flag is
\* only cleared by a stop, which sets the token
C36_Original == [][(scans_started > 1 /\ is_scanning /\ ~is_scanning') => cancel']_vars

\* C35: in a scan that is never stopped nothing is pushed after onDone, a poll
\* is scheduled as long as the scan is on and still when the onDone update has
\* cleared the flag, and in the end every pushed listing has been drained
C35_AllDrained ==
    /\ [][done # <<>> => queue' = queue]_vars
    /\ [](is_scanning => poll_pending > 0)
    /\ [][(is_scanning /\ ~is_scanning') => (done # <<>> /\ poll_pending' > 0)]_vars
    /\ [](drained <= Len(queue))
    /\ <>[](~is_scanning /\ poll_pending = 0 /\ drained = Len(queue))

\* the onDone update has cleared the flag while listings are still on the
\* queue and the last poll is still to run
C35_Witness == /\ ~is_scanning /\ done_handled = 1 /\ poll_pending = 1 /\ Len(queue) >= 2 /\ drained = 0

====
